---------------------------- MODULE Spec2Model ----------------------------
(***************************************************************************)
(* A model of the colour-token pipeline of Color-Converter                 *)
(* (src/unnamed/part_000: COLOR_REGEX, the four parsers, the colour space  *)
(* conversions, the formatters and convertCssColors) and of the UI code    *)
(* that shares the COLOR_REGEX object (src/components/CodeEditor.tsx,      *)
(* src/unnamed/part_005), of the debounced conversion of ColorConverter    *)
(* (src/unnamed/part_005) and of the fetch handler of the service worker   *)
(* (src/sw.js).                                                            *)
(*                                                                         *)
(* Text is a sequence of one-character strings.                            *)
(*                                                                         *)
(* A JavaScript number is a record [t |-> "num", v |-> n] whose v is the   *)
(* value in millionths (fixed point, six decimals), or NaN, or undefined.  *)
(* Integer arithmetic, parsing, printing, the hex and the hsl conversions  *)
(* are exact.  Math.pow, Math.cbrt, Math.sqrt, Math.cos, Math.sin and      *)
(* Math.atan2 are computed in fixed point, so the oklch numerals may       *)
(* differ from the IEEE double results: usually by one unit in the last    *)
(* printed digit, and by more for colours next to black, where the cube    *)
(* root magnifies the six-decimal rounding (rgb(1, 1, 1) prints lightness  *)
(* 6.69% for 6.71% and hue 259.87 for 261.46).  Channels read back from an *)
(* oklch numeral may then differ by one.  Where an exact result of the hsl  *)
(* conversions lies exactly halfway between two whole numbers, the doubles *)
(* of the source may round to the other neighbour (hsl(0, 100%, 5%) is     *)
(* read with r = 25 of 25.5; the model has 26).                            *)
(***************************************************************************)
EXTENDS Integers, Sequences, FiniteSets, TLC

(***************************************************************************)
(* Characters and character classes of the regular expressions.            *)
(***************************************************************************)
Digits == <<"0", "1", "2", "3", "4", "5", "6", "7", "8", "9">>

LowerHex == <<"0", "1", "2", "3", "4", "5", "6", "7", "8", "9",
              "a", "b", "c", "d", "e", "f">>

UpperHex == <<"0", "1", "2", "3", "4", "5", "6", "7", "8", "9",
              "A", "B", "C", "D", "E", "F">>

\* \d
ClsDigit == {Digits[i] : i \in 1..10}

\* [a-fA-F0-9]
ClsHex == {LowerHex[i] : i \in 1..16} \cup {UpperHex[i] : i \in 1..16}

\* \s
ClsSpace == {" ", "\n", "\t"}

\* [\d.]
ClsNum == ClsDigit \cup {"."}

\* [,\s]
ClsSep == ClsSpace \cup {","}

\* [,?\s]
ClsSepQ == ClsSep \cup {"?"}

\* the upper-case letters String.prototype.toLowerCase changes
UpperLetters == <<"A", "B", "C", "D", "E", "F", "G", "H", "K", "L", "O", "R", "S", "N">>

LowerLetters == <<"a", "b", "c", "d", "e", "f", "g", "h", "k", "l", "o", "r", "s", "n">>

IndexOf(seq, c) == CHOOSE i \in 1..Len(seq) : seq[i] = c

InSeq(seq, c) == \E i \in 1..Len(seq) : seq[i] = c

toLowerCaseChar(c) ==
    IF InSeq(UpperLetters, c) THEN LowerLetters[IndexOf(UpperLetters, c)] ELSE c

toLowerCase(s) == [i \in 1..Len(s) |-> toLowerCaseChar(s[i])]

RECURSIVE TrimLeft(_)
TrimLeft(s) == IF s # <<>> /\ Head(s) \in ClsSpace THEN TrimLeft(Tail(s)) ELSE s

RECURSIVE TrimRight(_)
TrimRight(s) ==
    IF s # <<>> /\ s[Len(s)] \in ClsSpace THEN TrimRight(SubSeq(s, 1, Len(s) - 1)) ELSE s

trim(s) == TrimRight(TrimLeft(s))

startsWith(s, lit) == Len(s) >= Len(lit) /\ SubSeq(s, 1, Len(lit)) = lit

endsWith(s, lit) ==
    Len(s) >= Len(lit) /\ SubSeq(s, Len(s) - Len(lit) + 1, Len(s)) = lit

(***************************************************************************)
(* Regular-expression steps.  A position is the 1-based index of the next  *)
(* character to read; 0 means the attempt has failed.  Every quantifier of *)
(* the program's expressions is followed by a character outside its class, *)
(* so greedy matching never has to give characters back.                   *)
(***************************************************************************)
LitAt(s, p, lit) ==
    /\ p >= 1
    /\ p + Len(lit) - 1 <= Len(s)
    /\ SubSeq(s, p, p + Len(lit) - 1) = lit

\* a literal
Lit(s, p, lit) == IF p # 0 /\ LitAt(s, p, lit) THEN p + Len(lit) ELSE 0

\* (?:lit)?
Opt(s, p, lit) == IF p # 0 /\ LitAt(s, p, lit) THEN p + Len(lit) ELSE p

RECURSIVE SkipWhile(_, _, _)
SkipWhile(s, p, cls) ==
    IF p <= Len(s) /\ s[p] \in cls THEN SkipWhile(s, p + 1, cls) ELSE p

RECURSIVE SkipUntil(_, _, _)
SkipUntil(s, p, c) ==
    IF p <= Len(s) /\ s[p] # c THEN SkipUntil(s, p + 1, c) ELSE p

\* [cls]*
Star(s, p, cls) == IF p # 0 THEN SkipWhile(s, p, cls) ELSE 0

\* [cls]+
Plus(s, p, cls) == IF p # 0 /\ SkipWhile(s, p, cls) > p THEN SkipWhile(s, p, cls) ELSE 0

\* one character of cls
One(s, p, cls) == IF p # 0 /\ p <= Len(s) /\ s[p] \in cls THEN p + 1 ELSE 0

Min(a, b) == IF a < b THEN a ELSE b

Max(a, b) == IF a > b THEN a ELSE b

Abs(a) == IF a < 0 THEN -a ELSE a

(***************************************************************************)
(* COLOR_REGEX =                                                           *)
(*  /(hsl(a?)\([^\)]+\))|(rgb(a?)\([^\)]+\))|(#[a-fA-F0-9]{3,8})           *)
(*   |(oklch\([^\)]+\))/g                                                  *)
(* FuncAt: kw a? \( [^\)]+ \)  matched at p; the position after the match, *)
(* or 0.  HexAt: # and three to eight hex digits, as many as there are.    *)
(***************************************************************************)
FuncAt(s, p, kw, optA) ==
    LET k    == Lit(s, p, kw)
        open == IF optA THEN Opt(s, k, <<"a">>) ELSE k
        args == Lit(s, open, <<"(">>)
        close == IF args = 0 THEN 0 ELSE SkipUntil(s, args, ")")
    IN  IF args # 0 /\ close > args /\ close <= Len(s) THEN close + 1 ELSE 0

HexAt(s, p) ==
    LET d == Lit(s, p, <<"#">>)
        e == IF d = 0 THEN 0 ELSE Min(SkipWhile(s, d, ClsHex), d + 8)
    IN  IF d # 0 /\ e - d >= 3 THEN e ELSE 0

\* the position after the match of COLOR_REGEX that starts at p, or 0
COLOR_REGEX(s, p) ==
    LET hsl == FuncAt(s, p, <<"h", "s", "l">>, TRUE)
        rgb == FuncAt(s, p, <<"r", "g", "b">>, TRUE)
        hex == HexAt(s, p)
        okl == FuncAt(s, p, <<"o", "k", "l", "c", "h">>, FALSE)
    IN  IF hsl # 0 THEN hsl
        ELSE IF rgb # 0 THEN rgb
        ELSE IF hex # 0 THEN hex
        ELSE okl

\* RegExp.prototype.exec from lastIndex: the first position from lastIndex on at
\* which the expression matches, as [index, end] (0-based, end exclusive),
\* or NoMatch
NoMatch == [index |-> -1, end |-> -1]

RECURSIVE RegExpExec(_, _)
RegExpExec(s, lastIndex) ==
    IF lastIndex >= Len(s) THEN NoMatch
    ELSE IF COLOR_REGEX(s, lastIndex + 1) # 0
         THEN [index |-> lastIndex, end |-> COLOR_REGEX(s, lastIndex + 1) - 1]
         ELSE RegExpExec(s, lastIndex + 1)

(***************************************************************************)
(* JavaScript numbers.                                                     *)
(***************************************************************************)
\* millionths per unit
Scale == 1000 * 1000

Num(v) == [t |-> "num", v |-> v]

\* the integer n as a number
Int2Num(n) == Num(n * Scale)

NaN == [t |-> "nan", v |-> 0]

undefined == [t |-> "undef", v |-> 0]

IsNum(x) == x.t = "num"

\* x < y of JavaScript: false when either side is NaN
Less(x, y) == IsNum(x) /\ IsNum(y) /\ x.v < y.v

\* a / b to the nearest integer, halves up (b > 0)
RoundDiv(a, b) == (2 * a + b) \div (2 * b)

\* Math.round on millionths: the nearest integer, halves up
MathRound(v) == (v + Scale \div 2) \div Scale

\* a * b of two fixed-point values, computed in 32 bits
\* (|a|, |b| < 2^31 / 1000, the product rounded down)
Mul(a, b) ==
    LET sgn == IF (a < 0) # (b < 0) THEN -1 ELSE 1
        x   == Abs(a)
        y   == Abs(b)
        xh  == x \div 1000
        xl  == x % 1000
        yh  == y \div 1000
        yl  == y % 1000
    IN  sgn * (xh * yh + (xh * yl + xl * yh + (xl * yl) \div 1000) \div 1000)

\* a / b of two fixed-point values (0 < b < 2^31 / 1000), by long division
Div(a, b) ==
    LET sgn == IF a < 0 THEN -1 ELSE 1
        x   == Abs(a)
        q0  == x \div b
        r0  == x % b
        q1  == (r0 * 1000) \div b
        r1  == (r0 * 1000) % b
        q2  == (r1 * 1000) \div b
    IN  sgn * (q0 * Scale + q1 * 1000 + q2)

(***************************************************************************)
(* Reading and printing numbers.                                           *)
(***************************************************************************)
DigitValue(c) == IndexOf(LowerHex, toLowerCaseChar(c)) - 1

\* the value of a string of digits in the given radix
RECURSIVE DigitsValue(_, _)
DigitsValue(s, radix) ==
    IF s = <<>> THEN 0
    ELSE DigitsValue(SubSeq(s, 1, Len(s) - 1), radix) * radix + DigitValue(s[Len(s)])

\* parseInt(s, radix) of a string the regular expression has checked
parseInt(s, radix) == Int2Num(DigitsValue(s, radix))

\* the first six decimals of a string of digits, as millionths
FractionValue(s) ==
    LET padded == SubSeq(s \o <<"0", "0", "0", "0", "0", "0">>, 1, 6)
    IN  DigitsValue(padded, 10)

\* parseFloat(s): the longest prefix digits [. digits] or . digits; NaN when
\* there is none ("." or ".."); whatever follows the prefix is ignored
parseFloat(s) ==
    LET intEnd  == SkipWhile(s, 1, ClsDigit)
        hasDot  == intEnd <= Len(s) /\ s[intEnd] = "."
        fracEnd == IF hasDot THEN SkipWhile(s, intEnd + 1, ClsDigit) ELSE intEnd
        ipart   == SubSeq(s, 1, intEnd - 1)
        fpart   == IF hasDot THEN SubSeq(s, intEnd + 1, fracEnd - 1) ELSE <<>>
    IN  IF ipart = <<>> /\ fpart = <<>> THEN NaN
        ELSE Num(DigitsValue(ipart, 10) * Scale + FractionValue(fpart))

\* Number.prototype.toString(radix) of a natural number
RECURSIVE NatToString(_, _)
NatToString(n, radix) ==
    IF n < radix THEN <<LowerHex[n + 1]>>
    ELSE NatToString(n \div radix, radix) \o <<LowerHex[(n % radix) + 1]>>

IntToString(n, radix) ==
    IF n < 0 THEN <<"-">> \o NatToString(-n, radix) ELSE NatToString(n, radix)

NaNString == <<"N", "a", "N">>

\* String.prototype.padStart(width, '0')
RECURSIVE padStart(_, _)
padStart(s, width) == IF Len(s) >= width THEN s ELSE padStart(<<"0">> \o s, width)

\* n as exactly `width` decimal digits
FixedDigits(n, width) == padStart(NatToString(n, 10), width)

\* Number.prototype.toFixed(digits) of a value >= 0, digits in 0..4
Pow10(k) == IF k = 0 THEN 1 ELSE IF k = 1 THEN 10 ELSE IF k = 2 THEN 100
            ELSE IF k = 3 THEN 1000 ELSE 10000

toFixed(x, digits) ==
    IF ~IsNum(x) THEN NaNString
    ELSE LET unit == Scale \div Pow10(digits)
             q    == RoundDiv(x.v, unit)
             ip   == NatToString(q \div Pow10(digits), 10)
         IN  IF digits = 0 THEN ip
             ELSE ip \o <<".">> \o FixedDigits(q % Pow10(digits), digits)

\* the value of x.toFixed(digits) read back by parseFloat
toFixedValue(x, digits) ==
    LET unit == Scale \div Pow10(digits) IN Num(RoundDiv(x.v, unit) * unit)

\* s without its trailing zeros
RECURSIVE StripZeros(_)
StripZeros(s) ==
    IF s # <<>> /\ s[Len(s)] = "0" THEN StripZeros(SubSeq(s, 1, Len(s) - 1)) ELSE s

\* s.replace(/\.$/, '')
StripDot(s) == IF endsWith(s, <<".">>) THEN SubSeq(s, 1, Len(s) - 1) ELSE s

\* String(x) of a number >= 0 with at most six decimals: the shortest form
NumberToString(x) ==
    IF ~IsNum(x) THEN NaNString
    ELSE LET ip == NatToString(x.v \div Scale, 10)
             fp == StripZeros(FixedDigits(x.v % Scale, 6))
         IN  IF fp = <<>> THEN ip ELSE ip \o <<".">> \o fp

(***************************************************************************)
(* Parsers: token -> RGB sample, or null.                                  *)
(* A sample is [t |-> "rgb", r, g, b, a]; a is undefined when the token    *)
(* has no alpha.                                                           *)
(***************************************************************************)
null == [t |-> "null"]

RGB(r, g, b, a) == [t |-> "rgb", r |-> r, g |-> g, b |-> b, a |-> a]

\* each character twice: hex[0] + hex[0] + hex[1] + hex[1] + ...
RECURSIVE DoubleEach(_)
DoubleEach(s) ==
    IF s = <<>> THEN <<>> ELSE <<Head(s), Head(s)>> \o DoubleEach(Tail(s))

\* a hexToRgb that expands the three-digit form only: HexParsed tells it
\* from hexToRgb
hexToRgbWithoutShortAlpha(hexIn) ==
    LET stripped == IF startsWith(hexIn, <<"#">>) THEN Tail(hexIn) ELSE hexIn
        hex == IF Len(stripped) = 3 THEN DoubleEach(stripped) ELSE stripped
    IN  IF Len(hex) # 6 /\ Len(hex) # 8 THEN null
        ELSE LET r == parseInt(SubSeq(hex, 1, 2), 16)
                 g == parseInt(SubSeq(hex, 3, 4), 16)
                 b == parseInt(SubSeq(hex, 5, 6), 16)
             IN  IF Len(hex) = 8
                 THEN RGB(r, g, b,
                          Num(RoundDiv(DigitsValue(SubSeq(hex, 7, 8), 16) * Scale, 255)))
                 ELSE RGB(r, g, b, undefined)

hexToRgb(hexIn) ==
    LET stripped == IF startsWith(hexIn, <<"#">>) THEN Tail(hexIn) ELSE hexIn
        hex == IF Len(stripped) = 4 \/ Len(stripped) = 3
               THEN DoubleEach(stripped) ELSE stripped
    IN  IF Len(hex) # 6 /\ Len(hex) # 8 THEN null
        ELSE LET r == parseInt(SubSeq(hex, 1, 2), 16)
                 g == parseInt(SubSeq(hex, 3, 4), 16)
                 b == parseInt(SubSeq(hex, 5, 6), 16)
             IN  IF Len(hex) = 8
                 THEN RGB(r, g, b,
                          Num(RoundDiv(DigitsValue(SubSeq(hex, 7, 8), 16) * Scale, 255)))
                 ELSE RGB(r, g, b, undefined)

\* str.match(regex) without the global flag: of the attempts at the
\* positions of the string, the first that matches, or [ok |-> FALSE]
FirstMatch(attempts) ==
    IF \E p \in DOMAIN attempts : attempts[p].ok
    THEN attempts[CHOOSE p \in DOMAIN attempts :
                      attempts[p].ok /\ \A q \in 1..(p - 1) : ~attempts[q].ok]
    ELSE [ok |-> FALSE]

\* /rgba?\((\d+)[,\s]+(\d+)[,\s]+(\d+)(?:\s*[,\/]\s*([\d.]+))?\)/ at p
RgbRegexAt(s, p) ==
    LET open == Lit(s, Opt(s, Lit(s, p, <<"r", "g", "b">>), <<"a">>), <<"(">>)
        e1   == Plus(s, open, ClsDigit)
        b2   == Plus(s, e1, ClsSep)
        e2   == Plus(s, b2, ClsDigit)
        b3   == Plus(s, e2, ClsSep)
        e3   == Plus(s, b3, ClsDigit)
        b4   == Star(s, One(s, Star(s, e3, ClsSpace), {",", "/"}), ClsSpace)
        e4   == Plus(s, b4, ClsNum)
        close == Lit(s, IF e4 # 0 THEN e4 ELSE e3, <<")">>)
    IN  IF close = 0 THEN [ok |-> FALSE]
        ELSE [ok |-> TRUE,
              m1 |-> SubSeq(s, open, e1 - 1),
              m2 |-> SubSeq(s, b2, e2 - 1),
              m3 |-> SubSeq(s, b3, e3 - 1),
              has4 |-> e4 # 0,
              m4 |-> IF e4 # 0 THEN SubSeq(s, b4, e4 - 1) ELSE <<>>]

\* lines 40-49 of rgbStringToRgb, on the result of rgbStr.match(...)
RgbOfMatch(match) ==
    IF ~match.ok THEN null
    ELSE RGB(parseInt(match.m1, 10), parseInt(match.m2, 10), parseInt(match.m3, 10),
             IF match.has4 THEN parseFloat(match.m4) ELSE undefined)

rgbStringToRgb(rgbStr) == RgbOfMatch(FirstMatch([p \in 1..Len(rgbStr) |-> RgbRegexAt(rgbStr, p)]))

\* /hsla?\((\d+)(?:deg)?[,?\s]+([\d.]+)%?[,\s]+([\d.]+)%?
\*   (?:\s*[,\/]\s*([\d.]+))?\)/ at p
HslRegexAt(s, p) ==
    LET open == Lit(s, Opt(s, Lit(s, p, <<"h", "s", "l">>), <<"a">>), <<"(">>)
        e1   == Plus(s, open, ClsDigit)
        b2   == Plus(s, Opt(s, e1, <<"d", "e", "g">>), ClsSepQ)
        e2   == Plus(s, b2, ClsNum)
        b3   == Plus(s, Opt(s, e2, <<"%">>), ClsSep)
        e3   == Plus(s, b3, ClsNum)
        x3   == Opt(s, e3, <<"%">>)
        b4   == Star(s, One(s, Star(s, x3, ClsSpace), {",", "/"}), ClsSpace)
        e4   == Plus(s, b4, ClsNum)
        close == Lit(s, IF e4 # 0 THEN e4 ELSE x3, <<")">>)
    IN  IF close = 0 THEN [ok |-> FALSE]
        ELSE [ok |-> TRUE,
              m1 |-> SubSeq(s, open, e1 - 1),
              m2 |-> SubSeq(s, b2, e2 - 1),
              m3 |-> SubSeq(s, b3, e3 - 1),
              has4 |-> e4 # 0,
              m4 |-> IF e4 # 0 THEN SubSeq(s, b4, e4 - 1) ELSE <<>>]

\* an HslChannels whose last sextant has the channels of the fifth:
\* HslHueRoundTripOfChromatic tells it from HslChannels
HslChannelsWithFifthSextantTwice(h, s, l) ==
    LET c  == Mul(Scale - Abs(2 * l - Scale), s)
        x  == Mul(c, Scale - RoundDiv(Abs((h % 120) - 60) * Scale, 60))
        m  == l - c \div 2
        p  == IF 0 <= h /\ h < 60 THEN <<c, x, 0>>
              ELSE IF 60 <= h /\ h < 120 THEN <<x, c, 0>>
              ELSE IF 120 <= h /\ h < 180 THEN <<0, c, x>>
              ELSE IF 180 <= h /\ h < 240 THEN <<0, x, c>>
              ELSE IF 240 <= h /\ h < 360 THEN <<x, 0, c>>
              ELSE <<0, 0, 0>>
    IN  [i \in 1..3 |-> Int2Num(MathRound((p[i] + m) * 255))]

\* the channels of hue h (whole degrees), saturation s and lightness l
\* (fixed point): lines 61-75 of hslStringToRgb.
\* (h / 60) % 2 - 1 is ((h mod 120) - 60) / 60.
HslChannels(h, s, l) ==
    LET c  == Mul(Scale - Abs(2 * l - Scale), s)
        x  == Mul(c, Scale - RoundDiv(Abs((h % 120) - 60) * Scale, 60))
        m  == l - c \div 2
        p  == IF 0 <= h /\ h < 60 THEN <<c, x, 0>>
              ELSE IF 60 <= h /\ h < 120 THEN <<x, c, 0>>
              ELSE IF 120 <= h /\ h < 180 THEN <<0, c, x>>
              ELSE IF 180 <= h /\ h < 240 THEN <<0, x, c>>
              ELSE IF 240 <= h /\ h < 300 THEN <<x, 0, c>>
              ELSE IF 300 <= h /\ h < 360 THEN <<c, 0, x>>
              ELSE <<0, 0, 0>>
    IN  [i \in 1..3 |-> Int2Num(MathRound((p[i] + m) * 255))]

\* the sample of three channels and an alpha
RGBA(ch, a) == RGB(ch[1], ch[2], ch[3], a)

\* an HslSample that drops the decimals of the written percentages:
\* HslChannelsAsConstructed tells it from HslSample
HslSampleOfWholePercentages(h, s, l, a) ==
    IF ~IsNum(s) \/ ~IsNum(l) THEN RGB(NaN, NaN, NaN, a)
    ELSE RGBA(HslChannels(h, (s.v \div Scale) * (Scale \div 100),
                          (l.v \div Scale) * (Scale \div 100)), a)

\* lines 56-77 of hslStringToRgb, on the values read from the match
HslSample(h, s, l, a) ==
    IF ~IsNum(s) \/ ~IsNum(l) THEN RGB(NaN, NaN, NaN, a)
    ELSE RGBA(HslChannels(h, RoundDiv(s.v, 100), RoundDiv(l.v, 100)), a)

\* lines 54-59 of hslStringToRgb, on the result of hslStr.match(...)
HslOfMatch(match) ==
    IF ~match.ok THEN null
    ELSE HslSample(DigitsValue(match.m1, 10), parseFloat(match.m2), parseFloat(match.m3),
                   IF match.has4 THEN parseFloat(match.m4) ELSE undefined)

hslStringToRgb(hslStr) == HslOfMatch(FirstMatch([p \in 1..Len(hslStr) |-> HslRegexAt(hslStr, p)]))

(***************************************************************************)
(* Math functions on fixed-point values.                                   *)
(***************************************************************************)
\* r * r * ... (k factors)
RECURSIVE PowFix(_, _)
PowFix(r, k) == IF k = 1 THEN r ELSE Mul(PowFix(r, k - 1), r)

\* the largest r in lo..hi with r^k <= n (PowFix(lo, k) <= n), by bisection
RECURSIVE RootBetween(_, _, _, _)
RootBetween(n, k, lo, hi) ==
    IF hi - lo <= 1
    THEN IF PowFix(hi, k) <= n THEN hi ELSE lo
    ELSE LET mid == (lo + hi) \div 2
         IN  IF PowFix(mid, k) <= n
             THEN RootBetween(n, k, mid, hi)
             ELSE RootBetween(n, k, lo, mid)

\* 2^k
RECURSIVE Pow2(_)
Pow2(k) == IF k = 0 THEN 1 ELSE 2 * Pow2(k - 1)

\* the k-th root of n, 0 <= n <= 4.  A small n is first brought into
\* [2^-k, 1) by factors of 2^k, which keeps the relative error at a millionth:
\* root(n) = root(n * 2^k) / 2.
RECURSIVE Root(_, _)
Root(n, k) ==
    IF n = 0 THEN 0
    ELSE IF n < Scale \div Pow2(k) THEN Root(n * Pow2(k), k) \div 2
    ELSE RootBetween(n, k, 0, 2 * Scale)

\* Math.cbrt(n), n >= 0
MathCbrt(n) == Root(n, 3)

\* Math.sqrt(n), n >= 0
MathSqrt(n) == Root(n, 2)

\* x * x
Square(x) == Mul(x, x)

\* Math.pow(x, 2.4) = x^2 * (x^(1/5))^2, 0 <= x <= 1
MathPow24(x) == Mul(Square(x), Square(Root(x, 5)))

\* c * c^(1/4)
TimesFourthRoot(c) == Mul(c, MathSqrt(MathSqrt(c)))

\* Math.pow(v, 1/2.4) = v^(1/3) * v^(1/12), 0 <= v <= 1
MathPowInv24(v) == TimesFourthRoot(MathCbrt(v))

\* pi, in millionths
PiFix == 3141593

\* degrees (fixed point, 0..90) to radians
Radians(deg) == Mul(deg, PiFix) \div 180

\* sin x and cos x for 0 <= x <= pi/4, by their Taylor series
SinSeries(x) ==
    LET x2 == Mul(x, x)
        t4 == Scale - Mul(x2, Scale) \div 72
        t3 == Scale - Mul(x2, t4) \div 42
        t2 == Scale - Mul(x2, t3) \div 20
        t1 == Scale - Mul(x2, t2) \div 6
    IN  Mul(x, t1)

CosSeries(x) ==
    LET x2 == Mul(x, x)
        t4 == Scale - Mul(x2, Scale) \div 56
        t3 == Scale - Mul(x2, t4) \div 30
        t2 == Scale - Mul(x2, t3) \div 12
    IN  Scale - Mul(x2, t2) \div 2

\* sin and cos of an angle of 0..90 degrees
SinDeg90(deg) ==
    IF deg <= 45 * Scale THEN SinSeries(Radians(deg))
    ELSE CosSeries(Radians(90 * Scale - deg))

CosDeg90(deg) ==
    IF deg <= 45 * Scale THEN CosSeries(Radians(deg))
    ELSE SinSeries(Radians(90 * Scale - deg))

\* Math.cos(h * (Math.PI / 180)) and Math.sin(h * (Math.PI / 180)), h >= 0
CosDeg(h) ==
    LET d == h % (360 * Scale)
        q == d \div (90 * Scale)
        r == d % (90 * Scale)
    IN  IF q = 0 THEN CosDeg90(r)
        ELSE IF q = 1 THEN -SinDeg90(r)
        ELSE IF q = 2 THEN -CosDeg90(r)
        ELSE SinDeg90(r)

SinDeg(h) ==
    LET d == h % (360 * Scale)
        q == d \div (90 * Scale)
        r == d % (90 * Scale)
    IN  IF q = 0 THEN SinDeg90(r)
        ELSE IF q = 1 THEN CosDeg90(r)
        ELSE IF q = 2 THEN -SinDeg90(r)
        ELSE -CosDeg90(r)

\* the angle t in lo..hi (degrees, fixed point) at which x sin t = y cos t,
\* for x, y >= 0 not both 0: atan(y / x) in degrees, by bisection
RECURSIVE AngleBetween(_, _, _, _)
AngleBetween(x, y, lo, hi) ==
    IF hi - lo <= 1 THEN lo
    ELSE LET mid == (lo + hi) \div 2
         IN  IF Mul(SinDeg90(mid), x) <= Mul(CosDeg90(mid), y)
             THEN AngleBetween(x, y, mid, hi)
             ELSE AngleBetween(x, y, lo, mid)

\* a and b divided by the larger of |a| and |b| (not both 0)
Normalised(a, b) ==
    LET m == Max(Abs(a), Abs(b)) IN [m |-> m, a |-> Div(a, m), b |-> Div(b, m)]

\* Math.atan2(b, a) * (180 / Math.PI), in -180..180
\* the angle of (a, b) from the angle t of (|a|, |b|)
InQuadrant(b, a, t) ==
    IF a >= 0 /\ b >= 0 THEN t
    ELSE IF a < 0 /\ b >= 0 THEN 180 * Scale - t
    ELSE IF a < 0 THEN t - 180 * Scale
    ELSE -t

\* the angle of the first quadrant of the direction n
AngleOf(n) == AngleBetween(Abs(n.a), Abs(n.b), 0, 90 * Scale)

Atan2Deg(b, a) ==
    IF a = 0 /\ b = 0 THEN 0 ELSE InQuadrant(b, a, AngleOf(Normalised(a, b)))

\* Math.sqrt(a * a + b * b)
Hypot(a, b) ==
    IF a = 0 /\ b = 0 THEN 0
    ELSE LET n == Normalised(a, b)
         IN  Mul(n.m, MathSqrt(Mul(n.a, n.a) + Mul(n.b, n.b)))

(***************************************************************************)
(* oklch -> RGB.                                                           *)
(***************************************************************************)
\* [L, C, h] -> [L, a, b]
oklchToOklab(oklch) ==
    [L |-> oklch.L, a |-> Mul(oklch.C, CosDeg(oklch.h)), b |-> Mul(oklch.C, SinDeg(oklch.h))]

linearRgbToSrgb(c) ==
    LET v    == Max(0, Min(Scale, c))
        srgb == IF v <= 3131 THEN Mul(12920000, v)
                ELSE Mul(1055000, MathPowInv24(v)) - 55000
    IN  Int2Num(MathRound(srgb * 255))

\* /oklch\(\s*([\d.]+)%?\s+([\d.]+)\s+([\d.]+)(?:deg)?
\*   (?:\s*\/\s*([\d.]+%?))?\s*\)/ at p
OklchRegexAt(s, p) ==
    LET b1   == Star(s, Lit(s, p, <<"o", "k", "l", "c", "h", "(">>), ClsSpace)
        e1   == Plus(s, b1, ClsNum)
        b2   == Plus(s, Opt(s, e1, <<"%">>), ClsSpace)
        e2   == Plus(s, b2, ClsNum)
        b3   == Plus(s, e2, ClsSpace)
        e3   == Plus(s, b3, ClsNum)
        x3   == Opt(s, e3, <<"d", "e", "g">>)
        b4   == Star(s, Lit(s, Star(s, x3, ClsSpace), <<"/">>), ClsSpace)
        e4   == Opt(s, Plus(s, b4, ClsNum), <<"%">>)
        close == Lit(s, Star(s, IF e4 # 0 THEN e4 ELSE x3, ClsSpace), <<")">>)
    IN  IF close = 0 THEN [ok |-> FALSE]
        ELSE [ok |-> TRUE,
              m1 |-> SubSeq(s, b1, e1 - 1),
              m2 |-> SubSeq(s, b2, e2 - 1),
              m3 |-> SubSeq(s, b3, e3 - 1),
              has4 |-> e4 # 0,
              m4 |-> IF e4 # 0 THEN SubSeq(s, b4, e4 - 1) ELSE <<>>]

\* x * x * x
Cube(x) == Mul(Mul(x, x), x)

\* lines 115-122 of oklchStringToRgb: Oklab -> LMS
OklabToLms(oklab) ==
    [l |-> Cube(oklab.L + Mul(396338, oklab.a) + Mul(215804, oklab.b)),
     m |-> Cube(oklab.L - Mul(105561, oklab.a) - Mul(63854, oklab.b)),
     s |-> Cube(oklab.L - Mul(89484, oklab.a) - Mul(1291486, oklab.b))]

\* lines 124-132 of oklchStringToRgb: LMS -> linear sRGB -> sRGB
LmsToSrgb(lms) ==
    <<linearRgbToSrgb(Mul(4076742, lms.l) - Mul(3307712, lms.m) + Mul(230970, lms.s)),
      linearRgbToSrgb(Mul(2609757, lms.m) - Mul(1268438, lms.l) - Mul(341319, lms.s)),
      linearRgbToSrgb(Mul(1707615, lms.s) - Mul(4196, lms.l) - Mul(703419, lms.m))>>

\* lines 112-132 of oklchStringToRgb: Oklab -> LMS -> linear sRGB -> sRGB
OklchChannels(oklch) == LmsToSrgb(OklabToLms(oklchToOklab(oklch)))

\* an alpha read without regard to the percent sign: OklchAlphaRead tells
\* it from OklchAlpha
OklchAlphaIgnoringPercent(alphaStr, alpha) == alpha

\* lines 104-110 of oklchStringToRgb: the alpha read from its text
OklchAlpha(alphaStr, alpha) ==
    IF ~IsNum(alpha) THEN NaN
    ELSE IF endsWith(alphaStr, <<"%">>) THEN Num(RoundDiv(alpha.v, 100))
    ELSE alpha

\* lines 112-134 of oklchStringToRgb, on the values read from the match
OklchSample(L, C, h, a) ==
    IF ~IsNum(L) \/ ~IsNum(C) \/ ~IsNum(h) THEN RGB(NaN, NaN, NaN, a)
    ELSE RGBA(OklchChannels([L |-> RoundDiv(L.v, 100), C |-> C.v, h |-> h.v]), a)

\* lines 97-110 of oklchStringToRgb, on the result of oklchStr.match(...)
OklchOfMatch(match) ==
    IF ~match.ok THEN null
    ELSE OklchSample(parseFloat(match.m1), parseFloat(match.m2), parseFloat(match.m3),
                     IF match.has4 THEN OklchAlpha(match.m4, parseFloat(match.m4))
                     ELSE undefined)

oklchStringToRgb(oklchStr) == OklchOfMatch(FirstMatch([p \in 1..Len(oklchStr) |-> OklchRegexAt(oklchStr, p)]))

(***************************************************************************)
(* RGB -> target.  The channels reaching these functions are whole numbers *)
(* in 0..255 or NaN (all three together).                                  *)
(***************************************************************************)
\* a toHex without padStart: HexRoundTrip tells it from toHex
toHexUnpadded(c) ==
    IF ~IsNum(c) THEN NaNString ELSE IntToString(MathRound(c.v), 16)

\* const toHex = (c) => Math.round(c).toString(16).padStart(2, '0')
toHex(c) ==
    IF ~IsNum(c) THEN NaNString ELSE padStart(IntToString(MathRound(c.v), 16), 2)

\* an rgbToHex that writes the alpha pair whenever the sample has an alpha:
\* AlphaPresenceLaw tells it from rgbToHex
rgbToHexWithAnyAlpha(rgb) ==
    IF rgb.a.t # "undef"
    THEN toHex(rgb.r) \o toHex(rgb.g) \o toHex(rgb.b) \o toHex(Num(rgb.a.v * 255))
    ELSE toHex(rgb.r) \o toHex(rgb.g) \o toHex(rgb.b)

rgbToHex(rgb) ==
    LET hex == toHex(rgb.r) \o toHex(rgb.g) \o toHex(rgb.b)
    IN  IF rgb.a.t # "undef" /\ Less(rgb.a, Int2Num(1))
        THEN hex \o toHex(Num(rgb.a.v * 255))
        ELSE hex

\* hsl as [h, s, l, a]: h in degrees, s and l in percent.
\* R, G, B are the channels as whole numbers, so max = hi / 255,
\* min = lo / 255 and every quotient of the source is a quotient of integers.
rgbToHsl(rgb) ==
    IF ~IsNum(rgb.r) \/ ~IsNum(rgb.g) \/ ~IsNum(rgb.b)
    THEN [h |-> Num(0), s |-> NaN, l |-> NaN, a |-> rgb.a]
    ELSE
    LET R  == rgb.r.v \div Scale
        G  == rgb.g.v \div Scale
        B  == rgb.b.v \div Scale
        hi == Max(R, Max(G, B))
        lo == Min(R, Min(G, B))
        d  == hi - lo
        l  == Div((hi + lo) * 100, 510)
        s  == IF hi = lo THEN 0
              ELSE IF hi + lo > 255 THEN Div(d * 100, 510 - hi - lo)
              ELSE Div(d * 100, hi + lo)
        h  == IF hi = lo THEN 0
              ELSE IF hi = R THEN Div(60 * (G - B) + (IF G < B THEN 360 * d ELSE 0), d)
              ELSE IF hi = G THEN Div(60 * (B - R) + 120 * d, d)
              ELSE Div(60 * (R - G) + 240 * d, d)
    IN  [h |-> Num(h), s |-> Num(s), l |-> Num(l), a |-> rgb.a]

srgbToLinearRgb(c) ==
    LET v == RoundDiv(c, 255)
    IN  IF v <= 40450 THEN RoundDiv(v * 100, 1292)
        ELSE MathPow24(Div(v + 55000, 1055000))

linearRgbToXyz(r, g, b) ==
    [x |-> Mul(r, 412456) + Mul(g, 357576) + Mul(b, 180438),
     y |-> Mul(r, 212673) + Mul(g, 715152) + Mul(b, 72175),
     z |-> Mul(r, 19334) + Mul(g, 119192) + Mul(b, 950304)]

\* lines 188-193 of xyzToOklab, on the cube roots l_, m_, s_
LmsRootsToOklab(l_, m_, s_) ==
    [L |-> Mul(210454, l_) + Mul(793618, m_) - Mul(4072, s_),
     a |-> Mul(1977998, l_) - Mul(2428592, m_) + Mul(450594, s_),
     b |-> Mul(25904, l_) + Mul(782772, m_) - Mul(808676, s_)]

\* xyzToOklab(x, y, z), xyz as [x, y, z]
xyzToOklab(xyz) ==
    LmsRootsToOklab(
        MathCbrt(Mul(412221, xyz.x) + Mul(536333, xyz.y) + Mul(51446, xyz.z)),
        MathCbrt(Mul(211903, xyz.x) + Mul(680700, xyz.y) + Mul(107397, xyz.z)),
        MathCbrt(Mul(88302, xyz.x) + Mul(281719, xyz.y) + Mul(629979, xyz.z)))

\* h < 0 ? h + 360 : h
PositiveHue(h) == IF h < 0 THEN h + 360 * Scale ELSE h

\* oklabToOklch(L, a, b), oklab as [L, a, b]
oklabToOklch(oklab) ==
    [L |-> oklab.L, C |-> Hypot(oklab.a, oklab.b), h |-> PositiveHue(Atan2Deg(oklab.b, oklab.a))]

\* { l, c, h, a } of rgbToOklch as [L, C, h, a] of numbers
OklchResult(oklch, a) == [L |-> Num(oklch.L), C |-> Num(oklch.C), h |-> Num(oklch.h), a |-> a]

\* oklch as [L, C, h, a] of numbers
rgbToOklch(rgb) ==
    IF ~IsNum(rgb.r) \/ ~IsNum(rgb.g) \/ ~IsNum(rgb.b)
    THEN [L |-> NaN, C |-> NaN, h |-> NaN, a |-> rgb.a]
    ELSE OklchResult(
             oklabToOklch(xyzToOklab(linearRgbToXyz(srgbToLinearRgb(rgb.r.v),
                                                    srgbToLinearRgb(rgb.g.v),
                                                    srgbToLinearRgb(rgb.b.v)))),
             rgb.a)

(***************************************************************************)
(* Formatters.                                                             *)
(***************************************************************************)
\* s.replace(/\.00$/, '')
Strip00(s) == IF endsWith(s, <<".", "0", "0">>) THEN SubSeq(s, 1, Len(s) - 3) ELSE s

\* s.replace(/\.0$/, '')
Strip0(s) == IF endsWith(s, <<".", "0">>) THEN SubSeq(s, 1, Len(s) - 2) ELSE s

\* s.replace(/^0\./, '.')
StripLeadingZero(s) == IF startsWith(s, <<"0", ".">>) THEN Tail(s) ELSE s

\* s.replace(/(\.\d*?)0+$/, '$1'): the zeros that end a decimal fraction
StripFractionZeros(s) == IF InSeq(s, ".") THEN StripZeros(s) ELSE s

\* s.replace(/0+$/, '')
StripTrailingZeros(s) == StripZeros(s)

HasAlphaBelowOne(a) == a.t # "undef" /\ Less(a, Int2Num(1))

\* a formatOklch that keeps the leading zero of the alpha (0.5 for .5):
\* OklchOutputShape tells it from formatOklch
formatOklchWithLeadingZero(oklch, useCssSyntax) ==
    LET l == Strip00(toFixed(IF IsNum(oklch.L) THEN Num(oklch.L.v * 100) ELSE NaN, 2))
        c == StripDot(StripFractionZeros(toFixed(oklch.C, 4)))
        h == Strip00(toFixed(oklch.h, 2))
        alphaPart == IF HasAlphaBelowOne(oklch.a)
                     THEN <<" ", "/", " ">> \o
                          StripDot(StripTrailingZeros(toFixed(oklch.a, 2)))
                     ELSE <<>>
    IN  IF useCssSyntax
        THEN <<"o", "k", "l", "c", "h", "(">> \o l \o <<"%", " ">> \o c \o <<" ">> \o h
             \o alphaPart \o <<")">>
        ELSE l \o <<" ">> \o c \o <<" ">> \o h \o alphaPart

formatOklch(oklch, useCssSyntax) ==
    LET l == Strip00(toFixed(IF IsNum(oklch.L) THEN Num(oklch.L.v * 100) ELSE NaN, 2))
        c == StripDot(StripFractionZeros(toFixed(oklch.C, 4)))
        h == Strip00(toFixed(oklch.h, 2))
        alphaPart == IF HasAlphaBelowOne(oklch.a)
                     THEN <<" ", "/", " ">> \o
                          StripLeadingZero(StripDot(StripTrailingZeros(toFixed(oklch.a, 2))))
                     ELSE <<>>
    IN  IF useCssSyntax
        THEN <<"o", "k", "l", "c", "h", "(">> \o l \o <<"%", " ">> \o c \o <<" ">> \o h
             \o alphaPart \o <<")">>
        ELSE l \o <<" ">> \o c \o <<" ">> \o h \o alphaPart

\* String(Math.round(c))
RoundedString(c) == IF ~IsNum(c) THEN NaNString ELSE IntToString(MathRound(c.v), 10)

\* formatRgb with the alpha printed to one decimal place
formatRgbWithOneDecimalAlpha(rgb, useCssSyntax) ==
    LET r == RoundedString(rgb.r)
        g == RoundedString(rgb.g)
        b == RoundedString(rgb.b)
    IN  IF HasAlphaBelowOne(rgb.a)
        THEN LET a == NumberToString(toFixedValue(rgb.a, 1))
             IN  IF useCssSyntax
                 THEN <<"r", "g", "b", "a", "(">> \o r \o <<",", " ">> \o g \o <<",", " ">>
                      \o b \o <<",", " ">> \o a \o <<")">>
                 ELSE r \o <<" ">> \o g \o <<" ">> \o b \o <<" ", "/", " ">> \o a
        ELSE IF useCssSyntax
             THEN <<"r", "g", "b", "(">> \o r \o <<",", " ">> \o g \o <<",", " ">> \o b
                  \o <<")">>
             ELSE r \o <<" ">> \o g \o <<" ">> \o b

\* case 'rgb' of convertCssColors
formatRgb(rgb, useCssSyntax) ==
    LET r == RoundedString(rgb.r)
        g == RoundedString(rgb.g)
        b == RoundedString(rgb.b)
    IN  IF HasAlphaBelowOne(rgb.a)
        THEN LET a == NumberToString(toFixedValue(rgb.a, 2))
             IN  IF useCssSyntax
                 THEN <<"r", "g", "b", "a", "(">> \o r \o <<",", " ">> \o g \o <<",", " ">>
                      \o b \o <<",", " ">> \o a \o <<")">>
                 ELSE r \o <<" ">> \o g \o <<" ">> \o b \o <<" ", "/", " ">> \o a
        ELSE IF useCssSyntax
             THEN <<"r", "g", "b", "(">> \o r \o <<",", " ">> \o g \o <<",", " ">> \o b
                  \o <<")">>
             ELSE r \o <<" ">> \o g \o <<" ">> \o b

\* a formatHsl that keeps the '.0' of a whole saturation or lightness:
\* HslOutputShape tells it from formatHsl
formatHslKeepingPointZero(hsl, useCssSyntax) ==
    LET h == toFixed(hsl.h, 0)
        s == toFixed(hsl.s, 1)
        l == toFixed(hsl.l, 1)
    IN  IF HasAlphaBelowOne(hsl.a)
        THEN LET a == NumberToString(toFixedValue(hsl.a, 2))
             IN  IF useCssSyntax
                 THEN <<"h", "s", "l", "a", "(">> \o h \o <<",", " ">> \o s \o <<"%", ",", " ">>
                      \o l \o <<"%", ",", " ">> \o a \o <<")">>
                 ELSE h \o <<" ">> \o s \o <<" ">> \o l \o <<" ", "/", " ">> \o a
        ELSE IF useCssSyntax
             THEN <<"h", "s", "l", "(">> \o h \o <<",", " ">> \o s \o <<"%", ",", " ">>
                  \o l \o <<"%", ")">>
             ELSE h \o <<" ">> \o s \o <<" ">> \o l

\* case 'hsl' of convertCssColors
formatHsl(hsl, useCssSyntax) ==
    LET h == toFixed(hsl.h, 0)
        s == Strip0(toFixed(hsl.s, 1))
        l == Strip0(toFixed(hsl.l, 1))
    IN  IF HasAlphaBelowOne(hsl.a)
        THEN LET a == NumberToString(toFixedValue(hsl.a, 2))
             IN  IF useCssSyntax
                 THEN <<"h", "s", "l", "a", "(">> \o h \o <<",", " ">> \o s \o <<"%", ",", " ">>
                      \o l \o <<"%", ",", " ">> \o a \o <<")">>
                 ELSE h \o <<" ">> \o s \o <<" ">> \o l \o <<" ", "/", " ">> \o a
        ELSE IF useCssSyntax
             THEN <<"h", "s", "l", "(">> \o h \o <<",", " ">> \o s \o <<"%", ",", " ">>
                  \o l \o <<"%", ")">>
             ELSE h \o <<" ">> \o s \o <<" ">> \o l

(***************************************************************************)
(* convertCssColors.                                                       *)
(***************************************************************************)
ColorFormat == {"oklch", "hex", "rgb", "hsl"}

\* Math.max(0, Math.min(255, c))
Clamp255(c) == IF ~IsNum(c) THEN NaN ELSE Num(Max(0, Min(255 * Scale, c.v)))

\* the dispatch on the prefix of the lower-cased, trimmed match
ParseToken(cleanedMatch) ==
    IF startsWith(cleanedMatch, <<"#">>) THEN hexToRgb(cleanedMatch)
    ELSE IF startsWith(cleanedMatch, <<"r", "g", "b">>) THEN rgbStringToRgb(cleanedMatch)
    ELSE IF startsWith(cleanedMatch, <<"h", "s", "l">>) THEN hslStringToRgb(cleanedMatch)
    ELSE IF startsWith(cleanedMatch, <<"o", "k", "l", "c", "h">>)
         THEN oklchStringToRgb(cleanedMatch)
    ELSE null

\* the clamped sample the switch on options.format receives
ClampSample(rgb) == RGB(Clamp255(rgb.r), Clamp255(rgb.g), Clamp255(rgb.b), rgb.a)

\* a switch whose default branch formats as rgb: UnsupportedFormatPassesThrough
\* tells it from FormatSample
FormatSampleDefaultingToRgb(rgb, match, options) ==
    IF options.format = "oklch" THEN formatOklch(rgbToOklch(rgb), options.useCssSyntax)
    ELSE IF options.format = "hex"
         THEN (IF options.useCssSyntax THEN <<"#">> ELSE <<>>) \o rgbToHex(rgb)
    ELSE IF options.format = "hsl" THEN formatHsl(rgbToHsl(rgb), options.useCssSyntax)
    ELSE formatRgb(rgb, options.useCssSyntax)

\* the switch on options.format
FormatSample(rgb, match, options) ==
    IF options.format = "oklch" THEN formatOklch(rgbToOklch(rgb), options.useCssSyntax)
    ELSE IF options.format = "hex"
         THEN (IF options.useCssSyntax THEN <<"#">> ELSE <<>>) \o rgbToHex(rgb)
    ELSE IF options.format = "rgb" THEN formatRgb(rgb, options.useCssSyntax)
    ELSE IF options.format = "hsl" THEN formatHsl(rgbToHsl(rgb), options.useCssSyntax)
    ELSE match

\* one call of the replace callback: the matched text, where it starts, the
\* sample parsed from it (or null), the sample handed to the formatter (or
\* null) and the text returned
Returned(match, index, options, parsed) ==
    [match  |-> match,
     index  |-> index,
     parsed |-> parsed,
     handed |-> IF parsed.t = "null" THEN null ELSE ClampSample(parsed),
     ret    |-> IF parsed.t = "null" THEN match
                ELSE FormatSample(ClampSample(parsed), match, options)]

\* a callback that returns the cleaned (trimmed, lower-cased) text of a token
\* without a sample: FailSafe tells it from Callback
CallbackReturningCleaned(match, index, options) ==
    Returned(trim(toLowerCase(match)), index, options, ParseToken(trim(toLowerCase(match))))

\* the callback of cssString.replace(COLOR_REGEX, ...)
Callback(match, index, options) ==
    Returned(match, index, options, ParseToken(trim(toLowerCase(match))))

\* String.prototype.replace with a global expression: the matches are
\* found on the original string, from position 0 ...
RECURSIVE ReplaceCalls(_, _, _)
\* the callback invocations from the match m on
CallsFrom(s, m, options) ==
    IF m = NoMatch THEN <<>>
    ELSE <<Callback(SubSeq(s, m.index + 1, m.end), m.index, options)>>
         \o ReplaceCalls(s, m.end, options)

ReplaceCalls(s, lastIndex, options) == CallsFrom(s, RegExpExec(s, lastIndex), options)

\* a replace that loses the text after the last match: FramePreserved tells
\* it from Accumulate
RECURSIVE AccumulateWithoutTail(_, _, _, _)
AccumulateWithoutTail(s, calls, i, nextSourcePosition) ==
    IF i > Len(calls) THEN <<>>
    ELSE SubSeq(s, nextSourcePosition + 1, calls[i].index) \o calls[i].ret
         \o AccumulateWithoutTail(s, calls, i + 1, calls[i].index + Len(calls[i].match))

\* ... and each is replaced by what the callback returned for it
RECURSIVE Accumulate(_, _, _, _)
Accumulate(s, calls, i, nextSourcePosition) ==
    IF i > Len(calls) THEN SubSeq(s, nextSourcePosition + 1, Len(s))
    ELSE SubSeq(s, nextSourcePosition + 1, calls[i].index) \o calls[i].ret
         \o Accumulate(s, calls, i + 1, calls[i].index + Len(calls[i].match))

\* the callback invocations of a replace and the string it returns
Replaced(s, calls) == [calls |-> calls, out |-> Accumulate(s, calls, 1, 0)]

\* a convertCssColors whose early return is a bare `return;`, shown as the
\* text "undefined": EmptyTextConverts tells it from convertCssColors
convertCssColorsReturningUndefined(cssString, options) ==
    IF cssString = <<>>
    THEN [calls |-> <<>>, out |-> <<"u", "n", "d", "e", "f", "i", "n", "e", "d">>]
    ELSE Replaced(cssString, ReplaceCalls(cssString, 0, options))

\* convertCssColors(cssString, options) as [calls, out]
convertCssColors(cssString, options) ==
    IF cssString = <<>> THEN [calls |-> <<>>, out |-> <<>>]
    ELSE Replaced(cssString, ReplaceCalls(cssString, 0, options))

(***************************************************************************)
(* Input texts.                                                            *)
(***************************************************************************)
\* three tokens of mixed notations between other text
DocMixed ==
    <<"a", "{", "#", "6", "7", "5", "0", "A", "4", ";", "r", "g", "b", "(", "3", "0",
      "0", ",", " ", "2", "0", ",", " ", "1", "2", "8", ")", " ", "h", "s", "l", "(",
      "1", "2", "0", ",", " ", "5", "0", "%", ",", " ", "5", "0", "%", ")", "}">>

\* a five-digit hex token (no sample) before a valid token
DocFailThenValid ==
    <<"#", "A", "B", "C", "D", "E", " ", "r", "g", "b", "a", "(", "0", ",", " ", "0",
      ",", " ", "0", ",", " ", "0", ".", "5", ")">>

\* a saturation of "." reads as NaN
DocNaN ==
    <<"h", "s", "l", "(", "0", ",", " ", ".", ",", " ", "5", "0", "%", ")", " ", "#",
      "f", "f", "f">>

\* the clamping example of the specification
DocNegative ==
    <<"r", "g", "b", "(", "3", "0", "0", ",", " ", "-", "2", "0", ",", " ", "1", "2",
      "8", ")">>

\* an alpha above 1
DocAlphaFive ==
    <<"r", "g", "b", "a", "(", "0", ",", " ", "0", ",", " ", "0", ",", " ", "5", ")">>

\* a four-digit hex and an oklch token, both with alpha
DocAlphaTokens ==
    <<"x", " ", "#", "0", "f", "0", "8", " ", "o", "k", "l", "c", "h", "(", "5", "9",
      ".", "6", "9", "%", " ", "0", ".", "1", "5", "4", " ", "2", "9", "2", ".", "3",
      "4", " ", "/", " ", "5", "0", "%", ")", " ", "y">>

\* two tokens with nothing between them
DocAdjacent ==
    <<"h", "s", "l", "a", "(", "1", "2", "0", ",", " ", "5", "0", "%", ",", " ", "5",
      "0", "%", ",", " ", "0", ".", "2", "5", ")", "#", "f", "f", "f">>

\* no token at all
DocNoColor ==
    <<"c", "o", "l", "o", "r", ":", " ", "r", "e", "d", ";", " ", "m", "a", "r", "g",
      "i", "n", ":", " ", "1", "0", "p", "x">>

\* alpha written as 1
DocOpaqueAlpha ==
    <<"#", "F", "F", "F", "F", "F", "F", "F", "F", " ", "r", "g", "b", "a", "(", "1",
      ",", "2", ",", "3", ",", "1", ")">>

\* text the expression does not match, then a token
DocUnmatched ==
    <<"r", "g", "b", "(", ")", " ", "#", "1", "2", " ", "R", "G", "B", "(", "1", ",",
      " ", "2", ",", " ", "3", ")", " ", "#", "a", "b", "c">>

\* an unclosed function before a well-formed one
DocNested ==
    <<"r", "g", "b", "(", "r", "g", "b", "(", "1", ",", "2", ",", "3", ")", " ", "o",
      "k", "l", "c", "h", "(", "5", "0", "%", " ", "0", ".", "1", " ", "2", "0", ")">>

\* ten hex digits: the token is the first eight
DocLongHex ==
    <<"#", "1", "2", "3", "4", "5", "6", "7", "8", "9", "0">>

\* alpha just below 1, and alpha 0
DocAlphaNearOne ==
    <<"r", "g", "b", "a", "(", "0", ",", " ", "0", ",", " ", "0", ",", " ", "0", ".",
      "9", "9", "9", ")", " ", "h", "s", "l", "a", "(", "0", ",", " ", "0", "%", ",",
      " ", "0", "%", ",", " ", "0", ")">>

\* no alpha, alpha 1 and alpha below 1
DocAlphaKinds ==
    <<"#", "f", "f", "f", " ", "r", "g", "b", "a", "(", "1", ",", " ", "2", ",", " ", "3",
      ",", " ", "1", ")", " ", "r", "g", "b", "a", "(", "1", ",", " ", "2", ",", " ", "3",
      ",", " ", "0", ".", "5", ")">>

Documents ==
    {<<>>, DocMixed, DocFailThenValid, DocNaN, DocNegative, DocAlphaFive, DocAlphaTokens,
     DocAdjacent, DocNoColor, DocOpaqueAlpha, DocUnmatched, DocNested, DocLongHex,
     DocAlphaNearOne, DocAlphaKinds}

(***************************************************************************)
(* The state.                                                              *)
(*   cssString   the text in the input editor                              *)
(*   outputText  the text in the output editor                             *)
(*   chain       the calls of convertCssColors made so far, each with its  *)
(*               input, options, callback invocations and result           *)
(*   lastIndex   COLOR_REGEX.lastIndex                                     *)
(*   scan        the last scan a component made with COLOR_REGEX: which    *)
(*               call, on what text, from which position, and the matches  *)
(*               it saw                                                    *)
(*   debouncedValue  the state of useDebouncedValue(inputText, 200)        *)
(*   timers      the texts of the pending timers of useDebouncedValue      *)
(*   config      outputFormat and useCssSyntax of ColorConverter           *)
(*   events      the fetch events of the service worker, one per request   *)
(*   cache       the responses in the cache of the service worker          *)
(*   puts        the cache.put calls that have been started and have not   *)
(*               written yet                                               *)
(***************************************************************************)
VARIABLES cssString, outputText, chain, lastIndex, scan,
          debouncedValue, timers, config,
          events, cache, puts

converterVars == <<cssString, outputText, chain, lastIndex, scan>>

debounceVars == <<debouncedValue, timers, config>>

workerVars == <<events, cache, puts>>

vars == <<converterVars, debounceVars, workerVars>>

NoScan == [op |-> "none", text |-> <<>>, start |-> 0, matches |-> <<>>]

\* how many calls of convertCssColors a behaviour makes
MaxCalls == 2

Options == [format : ColorFormat, useCssSyntax : BOOLEAN]

\* the options with CSS syntax
CssOptions == {options \in Options : options.useCssSyntax}

\* the requests of the fetch events: the page, which the install handler
\* has put into the cache (urlsToCache), a script of the site and a
\* style sheet of another origin
Requests == {"/", "/assets/index.js", "https://fonts.example/css"}

urlsToCache == {"/", "/index.html", "/manifest.json", "/vite.svg"}

Response(status, type, body) ==
    [t |-> "response", status |-> status, type |-> type, body |-> body]

\* no response, no outcome, no entry
None == [t |-> "none"]

\* the promise of fetch(event.request) has rejected
Rejected == [t |-> "rejected"]

\* a fetch event: where its handler is, what fetch(event.request) came to,
\* whether caches.match was called, and what respondWith was given
FetchEventOf(phase, network, consulted, answer) ==
    [phase |-> phase, network |-> network, consulted |-> consulted, answer |-> answer]

\* the state of the service worker after install: the shell is in the cache
InitWorker ==
    /\ events = [request \in Requests |-> FetchEventOf("idle", None, FALSE, None)]
    /\ cache = [request \in Requests |->
                    IF request \in urlsToCache THEN Response(200, "basic", "installed")
                    ELSE None]
    /\ puts = {}

\* ColorConverter before its first render: the defaults of outputFormat and
\* useCssSyntax
InitSettings ==
    /\ debouncedValue = <<>>
    /\ timers = {}
    /\ config = [format |-> "oklch", useCssSyntax |-> TRUE]

InitWith(texts) ==
    /\ cssString \in texts
    /\ outputText = <<>>
    /\ chain = <<>>
    /\ lastIndex = 0
    /\ scan = NoScan
    /\ InitSettings
    /\ InitWorker

Init == InitWith(Documents)

\* one entry of chain
Conversion(text, options, res) ==
    [in |-> text, options |-> options, calls |-> res.calls, out |-> res.out]

\* the effect of ColorConverter: outputText := convertCssColors(text, options).
\* String.prototype.replace sets lastIndex to 0 before and after its scan;
\* an empty text returns before the scan.
Convert(options) ==
    /\ Len(chain) < MaxCalls
    /\ chain' = Append(chain, Conversion(cssString, options,
                                          convertCssColors(cssString, options)))
    /\ outputText' = chain'[Len(chain')].out
    /\ lastIndex' = IF cssString = <<>> THEN lastIndex ELSE 0
    /\ UNCHANGED <<cssString, scan, debounceVars, workerVars>>

\* the user replaces the input text by the output text
PasteOutput ==
    /\ Len(chain) < MaxCalls
    /\ chain # <<>>
    /\ cssString # outputText
    /\ cssString' = outputText
    /\ UNCHANGED <<outputText, chain, lastIndex, scan, debounceVars, workerVars>>

Next ==
    \/ \E options \in Options : Convert(options)
    \/ PasteOutput

Spec == Init /\ [][Next]_vars

(***************************************************************************)
(* Properties of convertCssColors, stated on the entries of chain.         *)
(***************************************************************************)
\* by how much the replacements before the i-th one have moved the text
RECURSIVE Shift(_, _)
Shift(calls, i) ==
    IF i <= 1 THEN 0
    ELSE Shift(calls, i - 1) + Len(calls[i - 1].ret) - Len(calls[i - 1].match)

\* position p (1-based) of the input lies in the literal of call c
InLiteral(p, c) == c.index < p /\ p <= c.index + Len(c.match)

\* the number of literals that end before position p
LiteralsBefore(p, calls) ==
    Cardinality({i \in DOMAIN calls : calls[i].index + Len(calls[i].match) < p})

\* C1: the frame of the replacement.  In every conversion the callback is
\* invoked once on each match of the expression and on nothing else, the
\* matches lying in order and apart on the input; the output is the input
\* with each match replaced, in place, by the one string the callback
\* returned for it; and every character outside the matches is in the
\* output unchanged, moved only by the replacements before it.
FramePreserved ==
    \A k \in DOMAIN chain :
        LET e == chain[k]
            n == Len(e.calls)
        IN  /\ \A i \in 1..n :
                   /\ e.calls[i].match =
                          SubSeq(e.in, e.calls[i].index + 1,
                                 e.calls[i].index + Len(e.calls[i].match))
                   /\ COLOR_REGEX(e.in, e.calls[i].index + 1) =
                          e.calls[i].index + Len(e.calls[i].match) + 1
                   /\ SubSeq(e.out, e.calls[i].index + Shift(e.calls, i) + 1,
                             e.calls[i].index + Shift(e.calls, i) + Len(e.calls[i].ret))
                          = e.calls[i].ret
            /\ \A i \in 1..(n - 1) :
                   e.calls[i].index + Len(e.calls[i].match) <= e.calls[i + 1].index
            /\ Len(e.out) = Len(e.in) + Shift(e.calls, n + 1)
            /\ \A p \in 1..Len(e.in) :
                   (\A i \in 1..n : ~InLiteral(p, e.calls[i])) =>
                       /\ COLOR_REGEX(e.in, p) = 0
                       /\ e.out[p + Shift(e.calls, LiteralsBefore(p, e.calls) + 1)] = e.in[p]

\* a conversion of the three literals of DocMixed, each one changed, with
\* text before, between and after them
FramePreservedWitness ==
    \E k \in DOMAIN chain :
        /\ chain[k].in = DocMixed
        /\ Len(chain[k].calls) = 3
        /\ \A i \in 1..3 : chain[k].calls[i].ret # chain[k].calls[i].match
        /\ chain[k].calls[1].index > 0
        /\ chain[k].calls[3].index + Len(chain[k].calls[3].match) < Len(DocMixed)

\* C2: fail-safe.  A literal whose parser returns no sample is replaced by
\* its own text as it stands in the input, and the output from that literal
\* on is that text followed by the conversion of the rest of the input, as
\* if the literal had been ordinary text.
FailSafe ==
    \A k \in DOMAIN chain :
        LET e == chain[k]
        IN  \A i \in DOMAIN e.calls :
                e.calls[i].parsed = null =>
                    /\ e.calls[i].ret =
                           SubSeq(e.in, e.calls[i].index + 1,
                                  e.calls[i].index + Len(e.calls[i].match))
                    /\ SubSeq(e.out, e.calls[i].index + Shift(e.calls, i) + 1, Len(e.out))
                           = e.calls[i].ret \o
                             convertCssColors(
                                 SubSeq(e.in, e.calls[i].index + Len(e.calls[i].match) + 1,
                                        Len(e.in)),
                                 e.options).out

\* a literal with upper-case letters and no sample, followed by a literal
\* that is converted
FailSafeWitness ==
    \E k \in DOMAIN chain :
        /\ chain[k].in = DocFailThenValid
        /\ Len(chain[k].calls) = 2
        /\ chain[k].calls[1].parsed = null
        /\ chain[k].calls[1].ret # toLowerCase(chain[k].calls[1].ret)
        /\ chain[k].calls[2].parsed # null
        /\ chain[k].calls[2].ret # chain[k].calls[2].match

(***************************************************************************)
(* The shape of a replacement.                                             *)
(***************************************************************************)
\* the characters of a decimal numeral
NumeralChars == ClsNum \cup {"-"}

\* s with every run of numeral characters replaced by n
RECURSIVE Skeleton(_)
Skeleton(s) ==
    IF s = <<>> THEN <<>>
    ELSE IF Head(s) \in NumeralChars
         THEN <<"n">> \o Skeleton(SubSeq(s, SkipWhile(s, 1, NumeralChars), Len(s)))
         ELSE <<Head(s)>> \o Skeleton(Tail(s))

\* the runs of numeral characters of s
RECURSIVE NumeralRuns(_)
NumeralRuns(s) ==
    IF s = <<>> THEN <<>>
    ELSE IF Head(s) \in NumeralChars
         THEN <<SubSeq(s, 1, SkipWhile(s, 1, NumeralChars) - 1)>>
              \o NumeralRuns(SubSeq(s, SkipWhile(s, 1, NumeralChars), Len(s)))
         ELSE NumeralRuns(Tail(s))

\* digits, digits.digits or .digits
IsUnsignedNumeral(s) ==
    IF SkipWhile(s, 1, ClsDigit) > Len(s) THEN s # <<>>
    ELSE /\ s[SkipWhile(s, 1, ClsDigit)] = "."
         /\ SkipWhile(s, 1, ClsDigit) < Len(s)
         /\ SkipWhile(s, SkipWhile(s, 1, ClsDigit) + 1, ClsDigit) = Len(s) + 1

\* a finite decimal numeral
IsNumeral(s) == s # <<>> /\ IsUnsignedNumeral(IF Head(s) = "-" THEN Tail(s) ELSE s)

\* the skeletons of the literals of each notation but hex
Shapes(options) ==
    IF ~options.useCssSyntax
    THEN {<<"n", " ", "n", " ", "n">>, <<"n", " ", "n", " ", "n", " ", "/", " ", "n">>}
    ELSE IF options.format = "rgb"
    THEN {<<"r", "g", "b", "(", "n", ",", " ", "n", ",", " ", "n", ")">>,
          <<"r", "g", "b", "a", "(", "n", ",", " ", "n", ",", " ", "n", ",", " ", "n", ")">>}
    ELSE IF options.format = "hsl"
    THEN {<<"h", "s", "l", "(", "n", ",", " ", "n", "%", ",", " ", "n", "%", ")">>,
          <<"h", "s", "l", "a", "(", "n", ",", " ", "n", "%", ",", " ", "n", "%", ",", " ",
            "n", ")">>}
    ELSE {<<"o", "k", "l", "c", "h", "(", "n", "%", " ", "n", " ", "n", ")">>,
          <<"o", "k", "l", "c", "h", "(", "n", "%", " ", "n", " ", "n", " ", "/", " ", "n",
            ")">>}

\* the hex digits of a replacement in hex notation
HexDigitsOf(ret, options) ==
    IF options.useCssSyntax /\ ret # <<>> THEN Tail(ret) ELSE ret

\* ret is a well-formed literal of the notation of options, with finite
\* components
WellFormed(ret, options) ==
    IF options.format = "hex"
    THEN /\ options.useCssSyntax => startsWith(ret, <<"#">>)
         /\ Len(HexDigitsOf(ret, options)) \in {6, 8}
         /\ \A i \in DOMAIN HexDigitsOf(ret, options) :
                InSeq(LowerHex, HexDigitsOf(ret, options)[i])
    ELSE /\ Skeleton(ret) \in Shapes(options)
         /\ \A i \in DOMAIN NumeralRuns(ret) : IsNumeral(NumeralRuns(ret)[i])

\* C3: every literal is replaced by a well-formed literal of the target
\* notation with finite components, or by its own text; nothing else (a
\* component printed as NaN, say) is ever written for a literal.
ReplacementWellFormed ==
    \A k \in DOMAIN chain :
        \A i \in DOMAIN chain[k].calls :
            \/ chain[k].calls[i].ret = chain[k].calls[i].match
            \/ WellFormed(chain[k].calls[i].ret, chain[k].options)

\* hsl(0, ., 50%) has been converted to rgb and printed with NaN channels
NaNReplacementWitness ==
    \E k \in DOMAIN chain :
        /\ chain[k].in = DocNaN
        /\ chain[k].options = [format |-> "rgb", useCssSyntax |-> TRUE]
        /\ chain[k].calls[1].ret =
               <<"r", "g", "b", "(", "N", "a", "N", ",", " ", "N", "a", "N", ",", " ",
                 "N", "a", "N", ")">>

\* C4: the clamping example.  With format rgb and CSS syntax,
\* rgb(300, -20, 128) becomes rgb(255, 0, 128).
ClampingExample ==
    \A k \in DOMAIN chain :
        (/\ chain[k].in = DocNegative
         /\ chain[k].options = [format |-> "rgb", useCssSyntax |-> TRUE])
        => chain[k].out = <<"r", "g", "b", "(", "2", "5", "5", ",", " ", "0", ",", " ",
                            "1", "2", "8", ")">>

\* rgb(300, -20, 128) has been converted to rgb and has come out as it was,
\* no sample having been read from it
NegativeChannelWitness ==
    \E k \in DOMAIN chain :
        /\ chain[k].in = DocNegative
        /\ chain[k].options = [format |-> "rgb", useCssSyntax |-> TRUE]
        /\ Len(chain[k].calls) = 1
        /\ chain[k].calls[1].parsed = null
        /\ chain[k].out = DocNegative

\* c is a number within lo..hi (fixed point)
Within(c, lo, hi) == IsNum(c) /\ lo <= c.v /\ c.v <= hi

\* C5: the sample handed to a formatter has red, green and blue within
\* [0, 255] and, when it has an alpha, the alpha is a finite number within
\* [0, 1].
HandedSampleInRange ==
    \A k \in DOMAIN chain :
        \A i \in DOMAIN chain[k].calls :
            chain[k].calls[i].handed # null =>
                /\ Within(chain[k].calls[i].handed.r, 0, 255 * Scale)
                /\ Within(chain[k].calls[i].handed.g, 0, 255 * Scale)
                /\ Within(chain[k].calls[i].handed.b, 0, 255 * Scale)
                /\ chain[k].calls[i].handed.a # undefined =>
                       Within(chain[k].calls[i].handed.a, 0, Scale)

\* the sample of rgba(0, 0, 0, 5) has been handed on with alpha 5
AlphaFiveWitness ==
    \E k \in DOMAIN chain :
        /\ chain[k].in = DocAlphaFive
        /\ Len(chain[k].calls) = 1
        /\ chain[k].calls[1].handed # null
        /\ chain[k].calls[1].handed.a = Num(5 * Scale)

\* the characters between the components of a literal
Separators == {" ", ",", "/", "%"}

\* the position after the component that starts at p
RECURSIVE ComponentEnd(_, _)
ComponentEnd(s, p) ==
    IF p <= Len(s) /\ s[p] \notin Separators THEN ComponentEnd(s, p + 1) ELSE p

\* the components of s: its runs of characters between separators
RECURSIVE Components(_)
Components(s) ==
    IF s = <<>> THEN <<>>
    ELSE IF Head(s) \in Separators THEN Components(Tail(s))
    ELSE <<SubSeq(s, 1, ComponentEnd(s, 1) - 1)>>
         \o Components(SubSeq(s, ComponentEnd(s, 1), Len(s)))

\* the text between the parentheses of a functional literal; a bare
\* literal itself
Inside(ret) ==
    IF InSeq(ret, "(") /\ endsWith(ret, <<")">>)
    THEN SubSeq(ret, IndexOf(ret, "(") + 1, Len(ret) - 1)
    ELSE ret

\* the number of fields of a hex literal: a field is two digits, or NaN
RECURSIVE HexFields(_)
HexFields(s) ==
    IF s = <<>> THEN 0
    ELSE IF startsWith(s, NaNString) THEN 1 + HexFields(SubSeq(s, 4, Len(s)))
    ELSE 1 + HexFields(SubSeq(s, 3, Len(s)))

\* the number of components of a replacement
ComponentCount(ret, options) ==
    IF options.format = "hex" THEN HexFields(HexDigitsOf(ret, options))
    ELSE Len(Components(Inside(ret)))

\* ret is written in the form with alpha: a fourth hex pair, rgba( or hsla(
\* with a fourth argument, or a "/ a" suffix
HasAlphaComponent(ret, options) ==
    /\ ComponentCount(ret, options) = 4
    /\ options.format # "hex" =>
           IF options.useCssSyntax /\ options.format = "rgb"
           THEN startsWith(ret, <<"r", "g", "b", "a", "(">>)
           ELSE IF options.useCssSyntax /\ options.format = "hsl"
           THEN startsWith(ret, <<"h", "s", "l", "a", "(">>)
           ELSE InSeq(ret, "/")

\* ret is written in the form without alpha
HasNoAlphaComponent(ret, options) ==
    /\ ComponentCount(ret, options) = 3
    /\ ~InSeq(ret, "/")
    /\ (options.useCssSyntax /\ options.format = "rgb") => startsWith(ret, <<"r", "g", "b", "(">>)
    /\ (options.useCssSyntax /\ options.format = "hsl") => startsWith(ret, <<"h", "s", "l", "(">>)

\* C7: the alpha presence law.  For every literal that has a sample, every
\* notation and both syntaxes: when the sample has no alpha or alpha 1 the
\* replacement has no alpha component; when its alpha is below 1 the
\* replacement has one.
AlphaPresenceLaw ==
    \A k \in DOMAIN chain :
        \A i \in DOMAIN chain[k].calls :
            LET c == chain[k].calls[i]
            IN  c.parsed # null =>
                    /\ (c.parsed.a = undefined \/ c.parsed.a = Num(Scale)) =>
                           HasNoAlphaComponent(c.ret, chain[k].options)
                    /\ (IsNum(c.parsed.a) /\ c.parsed.a.v < Scale) =>
                           HasAlphaComponent(c.ret, chain[k].options)

\* a conversion to hex of a literal without alpha, one with alpha 1 and one
\* with alpha 0.5
AlphaPresenceWitness ==
    \E k \in DOMAIN chain :
        /\ chain[k].in = DocAlphaKinds
        /\ chain[k].options = [format |-> "hex", useCssSyntax |-> TRUE]
        /\ Len(chain[k].calls) = 3
        /\ chain[k].calls[1].parsed.a = undefined
        /\ chain[k].calls[2].parsed.a = Num(Scale)
        /\ chain[k].calls[3].parsed.a = Num(Scale \div 2)
        /\ Len(chain[k].calls[2].ret) = 7
        /\ Len(chain[k].calls[3].ret) = 9

(***************************************************************************)
(* The scans of the components.  They share the one COLOR_REGEX object     *)
(* with convertCssColors, and so its lastIndex.                            *)
(***************************************************************************)
\* the matches an iteration of exec finds in s from position from on, each
\* as [index, match]
RECURSIVE MatchesFrom(_, _)
\* the matches from the match m on
MatchesAfter(s, m) ==
    IF m = NoMatch THEN <<>>
    ELSE <<[index |-> m.index, match |-> SubSeq(s, m.index + 1, m.end)]>>
         \o MatchesFrom(s, m.end)

MatchesFrom(s, from) == MatchesAfter(s, RegExpExec(s, from))

\* what the pointer can be over in an editor
HoverWords ==
    {<<"#", "f", "f", "f">>,
     <<"c", "o", "l", "o", "r">>,
     <<"x", "#", "6", "7", "5", "0", "A", "4">>,
     <<"r", "g", "b", "(", "1", ",", "2", ",", "3", ")">>}

\* ColorConverter: inputText.match(COLOR_REGEX) || [] and the same on
\* outputText.  String.prototype.match with a global expression sets
\* lastIndex to 0, collects every match, and leaves lastIndex 0.
MatchColors ==
    /\ \E text \in {cssString, outputText} :
           scan' = [op |-> "match", text |-> text, start |-> 0,
                    matches |-> MatchesFrom(text, 0)]
    /\ lastIndex' = 0
    /\ UNCHANGED <<cssString, outputText, chain, debounceVars, workerVars>>

\* CodeEditor, highlightContent: value.matchAll(COLOR_REGEX) on a text that
\* is not empty.  matchAll iterates a copy of the expression that starts at
\* the lastIndex of the original, and leaves the original as it is.
Highlight ==
    /\ \E value \in {cssString, outputText} \ {<<>>} :
           scan' = [op |-> "matchAll", text |-> value, start |-> lastIndex,
                    matches |-> MatchesFrom(value, lastIndex)]
    /\ UNCHANGED <<cssString, outputText, chain, lastIndex, debounceVars, workerVars>>

\* the first match of s, as a list of at most one match
FirstOf(matches) == IF matches = <<>> THEN <<>> ELSE <<Head(matches)>>

\* the end of the first match, or 0: lastIndex after exec from 0
EndOfFirst(s) == IF RegExpExec(s, 0) = NoMatch THEN 0 ELSE RegExpExec(s, 0).end

\* CodeEditor, handleMouseMove: COLOR_REGEX.lastIndex = 0 and then
\* COLOR_REGEX.test(word).  test leaves lastIndex at the end of the match
\* it found, or at 0 when it found none.
Hover ==
    /\ \E word \in HoverWords :
           /\ scan' = [op |-> "test", text |-> word, start |-> 0,
                       matches |-> FirstOf(MatchesFrom(word, 0))]
           /\ lastIndex' = EndOfFirst(word)
    /\ UNCHANGED <<cssString, outputText, chain, debounceVars, workerVars>>

\* the texts of the editor in the behaviours with scans
ScannedDocuments == {DocMixed, DocAdjacent, DocNoColor}

InitUI == InitWith(ScannedDocuments)

NextUI ==
    \/ \E options \in CssOptions : Convert(options)
    \/ MatchColors
    \/ Highlight
    \/ Hover

SpecUI == InitUI /\ [][NextUI]_vars

\* the matches the callback of a conversion was invoked on
ReplaceMatches(calls) ==
    [i \in DOMAIN calls |-> [index |-> calls[i].index, match |-> calls[i].match]]

HexDigitSample == {"0", "7", "a", "F"}

HexPairSample == {<<"0", "0">>, <<"6", "7">>, <<"5", "0">>, <<"A", "4">>, <<"f", "F">>}

\* opaque hex literals of three and of six digits, in both letter cases
HexLiterals ==
    {<<"#", a, b, c>> : a \in HexDigitSample, b \in HexDigitSample, c \in HexDigitSample}
    \cup {<<"#">> \o x \o y \o z :
             x \in HexPairSample, y \in HexPairSample, z \in HexPairSample}

\* the channel values the rgb literals are made of
ChannelSample == {0, 1, 128, 255}

\* the literal rgb(r, g, b)
RgbLiteral(r, g, b) ==
    <<"r", "g", "b", "(">> \o NatToString(r, 10) \o <<",", " ">> \o NatToString(g, 10)
    \o <<",", " ">> \o NatToString(b, 10) \o <<")">>

\* opaque sRGB colours, white, black and greys among them
RgbLiterals ==
    {RgbLiteral(r, g, b) : r \in ChannelSample, g \in ChannelSample, b \in ChannelSample}

InitRoundTrip == InitWith(HexLiterals \cup RgbLiterals)

NextRoundTrip ==
    \/ \E options \in CssOptions : Convert(options)
    \/ PasteOutput

SpecRoundTrip == InitRoundTrip /\ [][NextRoundTrip]_vars

\* the second conversion has been made on the output of the first
Chained == Len(chain) = 2 /\ chain[2].in = chain[1].out

\* the lower-case six-digit form of a hex literal of three or six digits
SixDigitForm(hex) ==
    toLowerCase(IF Len(hex) = 4 THEN <<"#">> \o DoubleEach(Tail(hex)) ELSE hex)

\* C8: hex -> rgb -> hex is exact.  An opaque hex literal of three or six
\* digits, in any letter case, converted to rgb and the output converted to
\* hex, gives the lower-case six-digit form of the literal.
HexRoundTrip ==
    (/\ Chained
     /\ chain[1].in \in HexLiterals
     /\ chain[1].options.format = "rgb"
     /\ chain[2].options.format = "hex")
    => chain[2].out = SixDigitForm(chain[1].in)

\* #6750A4 has gone to rgb(103, 80, 164) and back to #6750a4
HexRoundTripWitness ==
    /\ Chained
    /\ chain[1].in = <<"#", "6", "7", "5", "0", "A", "4">>
    /\ chain[1].options.format = "rgb"
    /\ chain[1].out = RgbLiteral(103, 80, 164)
    /\ chain[2].options.format = "hex"
    /\ chain[2].out = <<"#", "6", "7", "5", "0", "a", "4">>

\* the channels of x and y differ by at most 1
WithinOne(x, y) ==
    /\ IsNum(x.r) /\ IsNum(x.g) /\ IsNum(x.b) /\ IsNum(y.r) /\ IsNum(y.g) /\ IsNum(y.b)
    /\ Abs(x.r.v - y.r.v) <= Scale
    /\ Abs(x.g.v - y.g.v) <= Scale
    /\ Abs(x.b.v - y.b.v) <= Scale

\* C9: rgb -> oklch -> rgb comes back within 1 per channel.  An opaque
\* sRGB colour converted to oklch and the output converted to rgb gives a
\* sample whose channels are within 1 of the original ones.
OklchRoundTrip ==
    (/\ Chained
     /\ chain[1].in \in RgbLiterals
     /\ chain[1].options.format = "oklch"
     /\ chain[2].options.format = "rgb")
    => /\ Len(chain[2].calls) = 1
       /\ chain[2].calls[1].handed # null
       /\ WithinOne(chain[2].calls[1].handed, chain[1].calls[1].handed)

\* white has gone to oklch and has come back as rgb(249, 255, 255)
WhiteRoundTripWitness ==
    /\ Chained
    /\ chain[1].in = RgbLiteral(255, 255, 255)
    /\ chain[1].options.format = "oklch"
    /\ chain[2].options.format = "rgb"
    /\ chain[2].out = RgbLiteral(249, 255, 255)

\* C10: idempotence.  With CSS syntax, converting the output of a
\* conversion again with the same options gives that output again.
Idempotent ==
    (/\ Chained
     /\ chain[2].options = chain[1].options
     /\ chain[1].options.useCssSyntax)
    => chain[2].out = chain[1].out

\* rgb(255, 0, 1) has gone to hsl(360, 100%, 50%), and that to hsl(0, 0%, 0%)
HueRoundedUpWitness ==
    /\ Chained
    /\ chain[1].in = RgbLiteral(255, 0, 1)
    /\ chain[1].options.format = "hsl"
    /\ chain[2].options.format = "hsl"
    /\ chain[1].out = <<"h", "s", "l", "(", "3", "6", "0", ",", " ", "1", "0", "0", "%",
                        ",", " ", "5", "0", "%", ")">>
    /\ chain[2].out = <<"h", "s", "l", "(", "0", ",", " ", "0", "%", ",", " ", "0", "%", ")">>

(***************************************************************************)
(* Round trips of hsl literals: hsl -> rgb -> hsl.                         *)
(***************************************************************************)
\* the hues, saturations and lightnesses the hsl literals are made of
HueSample == {0, 1, 8, 59, 60, 120, 180, 240, 300, 311, 359}

SaturationSample == {1, 20, 50, 100}

LightnessSample == {1, 11, 50, 90}

\* the literal hsl(h, s%, l%)
HslLiteral(h, s, l) ==
    <<"h", "s", "l", "(">> \o NatToString(h, 10) \o <<",", " ">> \o NatToString(s, 10)
    \o <<"%", ",", " ">> \o NatToString(l, 10) \o <<"%", ")">>

\* chromatic hsl literals with a whole hue in [0, 360)
HslLiterals ==
    {HslLiteral(h, s, l) : h \in HueSample, s \in SaturationSample, l \in LightnessSample}

\* a percentage written in halves of a percent: 25 is 12.5
HalfPercent(n2) ==
    NatToString(n2 \div 2, 10) \o (IF n2 % 2 = 1 THEN <<".", "5">> ELSE <<>>)

\* the literal hsl(h, s%, l%) of a saturation and a lightness in halves of
\* a percent
HslHalfLiteral(h, s2, l2) ==
    <<"h", "s", "l", "(">> \o NatToString(h, 10) \o <<",", " ">> \o HalfPercent(s2)
    \o <<"%", ",", " ">> \o HalfPercent(l2) \o <<"%", ")">>

\* saturations and lightnesses with a decimal, in halves of a percent
\* (12.5; 33.5, 84.5)
HalfSaturationSample == {25}

HalfLightnessSample == {67, 169}

\* hsl literals whose percentages have a decimal
HslDecimalLiterals ==
    {HslHalfLiteral(h, s2, l2) :
         h \in HueSample, s2 \in HalfSaturationSample, l2 \in HalfLightnessSample}

InitHsl == InitWith(HslLiterals \cup HslDecimalLiterals)

SpecHsl == InitHsl /\ [][NextRoundTrip]_vars

\* the whole number an hsl literal has in its first, second or third place
HslField(text, i) ==
    IF i = 1 THEN DigitsValue(HslRegexAt(text, 1).m1, 10)
    ELSE IF i = 2 THEN DigitsValue(HslRegexAt(text, 1).m2, 10)
    ELSE DigitsValue(HslRegexAt(text, 1).m3, 10)

\* the distance of two hues on the circle of 360 degrees
HueDistance(h1, h2) == Min((h1 - h2) % 360, (h2 - h1) % 360)

\* (1 - |2l - 1|) * s of an hsl literal, in ten-thousandths
ChromaOf(text) == (100 - Abs(2 * HslField(text, 3) - 100)) * HslField(text, 2)

\* an hsl literal has been converted to rgb, and the output to hsl
HslRoundTripped ==
    /\ Chained
    /\ chain[1].in \in HslLiterals
    /\ chain[1].options.format = "rgb"
    /\ chain[2].options.format = "hsl"

\* C11 as stated: hsl -> rgb -> hsl gives back the hue within 1 degree.  An
\* hsl literal with a whole hue in [0, 360), saturation > 0 and lightness
\* strictly between 0 and 100, converted to rgb and the output converted to
\* hsl, has a hue within 1 degree (modulo 360) of the one it started with.
HslHueRoundTrip ==
    HslRoundTripped
    => /\ HslRegexAt(chain[2].out, 1).ok
       /\ HueDistance(HslField(chain[2].out, 1), HslField(chain[1].in, 1)) <= 1

\* C11 amended: the same for the literals whose chroma (1 - |2l - 1|) * s
\* is at least 0.2; below that the rounding of the channels to whole
\* numbers moves the hue further.
HslHueRoundTripOfChromatic ==
    (HslRoundTripped /\ ChromaOf(chain[1].in) >= 2000)
    => /\ HslRegexAt(chain[2].out, 1).ok
       /\ HueDistance(HslField(chain[2].out, 1), HslField(chain[1].in, 1)) <= 1

\* hsl(311, 100%, 11%) has chroma 0.22 and has come back with hue 311
HslHueRoundTripWitness ==
    /\ HslRoundTripped
    /\ chain[1].in = HslLiteral(311, 100, 11)
    /\ ChromaOf(chain[1].in) = 2200
    /\ chain[1].out = RgbLiteral(56, 0, 46)
    /\ HslField(chain[2].out, 1) = 311

(***************************************************************************)
(* Conversions with a format outside ColorFormat.  The type of             *)
(* options.format is not checked when the program runs: the switch of      *)
(* convertCssColors has a default branch for such a value.                 *)
(***************************************************************************)
\* values of options.format the switch has no case for
UnsupportedFormat == {"lab", "HEX"}

AnyOptions == [format : ColorFormat \cup UnsupportedFormat, useCssSyntax : BOOLEAN]

NextAnyFormat ==
    \/ \E options \in AnyOptions : Convert(options)
    \/ PasteOutput

SpecAnyFormat == Init /\ [][NextAnyFormat]_vars

\* C12: a format that is none of oklch, hex, rgb, hsl is a pass-through.
\* Every conversion with such a format returns a value (none throws), the
\* callback returns every token as it was matched, the tokens with a sample
\* included, and the output is the input text.
UnsupportedFormatPassesThrough ==
    \A k \in DOMAIN chain :
        chain[k].options.format \notin ColorFormat =>
            /\ chain[k].out = chain[k].in
            /\ \A i \in DOMAIN chain[k].calls :
                   chain[k].calls[i].ret = chain[k].calls[i].match

\* DocMixed, whose three tokens all have a sample, converted with format
\* "HEX"
UnsupportedFormatWitness ==
    \E k \in DOMAIN chain :
        /\ chain[k].options.format = "HEX"
        /\ chain[k].in = DocMixed
        /\ Len(chain[k].calls) = 3
        /\ \A i \in 1..3 : chain[k].calls[i].parsed # null
        /\ chain[k].out = DocMixed

(***************************************************************************)
(* Single tokens: keywords not in lower case, alpha written as a           *)
(* percentage or as a bare number, hex tokens of every length the          *)
(* expression matches.                                                     *)
(***************************************************************************)
\* the rgb keyword in upper case
TokUpperRgb ==
    <<"R", "G", "B", "(", "1", ",", " ", "2", ",", " ", "3", ")">>

\* the hsl keyword with a capital
TokCapitalHsl ==
    <<"H", "s", "l", "(", "0", ",", " ", "0", "%", ",", " ", "0", "%", ")">>

\* the hsla keyword in mixed case
TokMixedHsla ==
    <<"h", "S", "L", "A", "(", "1", "2", "0", ",", " ", "5", "0", "%", ",", " ", "5",
      "0", "%", ",", " ", "0", ".", "2", "5", ")">>

\* tokens whose keyword is not in lower case
KeywordCaseTokens == {TokUpperRgb, TokCapitalHsl, TokMixedHsla}

\* ways of writing an alpha, each with the alpha it stands for (millionths)
AlphaForms ==
    {[text |-> <<"5", "0", "%">>, value |-> 500000],
     [text |-> <<"5", "%">>, value |-> 50000],
     [text |-> <<"1", "0", "0", "%">>, value |-> 1000000],
     [text |-> <<"1", "2", ".", "5", "%">>, value |-> 125000],
     [text |-> <<"0", ".", "5">>, value |-> 500000],
     [text |-> <<"1">>, value |-> 1000000],
     [text |-> <<".", "2", "5">>, value |-> 250000]}

\* the token oklch(59.69% 0.154 292.34 / alpha)
OklchWithAlpha(alphaText) ==
    <<"o", "k", "l", "c", "h", "(", "5", "9", ".", "6", "9", "%", " ", "0", ".", "1",
      "5", "4", " ", "2", "9", "2", ".", "3", "4", " ", "/", " ">>
    \o alphaText \o <<")">>

\* the token rgba(0, 0, 0, alpha)
RgbaWithAlpha(alphaText) ==
    <<"r", "g", "b", "a", "(", "0", ",", " ", "0", ",", " ", "0", ",", " ">>
    \o alphaText \o <<")">>

\* the token hsla(0, 0%, 0%, alpha)
HslaWithAlpha(alphaText) ==
    <<"h", "s", "l", "a", "(", "0", ",", " ", "0", "%", ",", " ", "0", "%", ",", " ">>
    \o alphaText \o <<")">>

AlphaTokens ==
    {OklchWithAlpha(form.text) : form \in AlphaForms}
    \cup {RgbaWithAlpha(form.text) : form \in AlphaForms}
    \cup {HslaWithAlpha(form.text) : form \in AlphaForms}

\* '#' and eight hex digits in both letter cases
HexOfEight ==
    <<"#", "a", "1", "F", "8", "0", "c", "7", "E">>

\* hex tokens of three to eight digits
HexTokens == {SubSeq(HexOfEight, 1, n + 1) : n \in 3..8}

\* hex literals of four and eight digits with an alpha byte below ff
AlphaHexLiterals ==
    {<<"#", "0", "0", "0", "0", "0", "0", "8", "0">>,
     <<"#", "0", "0", "0", "0", "0", "0", "0", "1">>,
     <<"#", "0", "0", "0", "8">>,
     <<"#", "6", "7", "5", "0", "a", "4", "c", "c">>,
     <<"#", "0", "0", "0", "0", "0", "0", "f", "d">>,
     <<"#", "0", "0", "0", "0", "0", "0", "f", "e">>,
     SubSeq(HexOfEight, 1, 5), HexOfEight}

\* tokens that hold a well-formed colour function further inside
NestedTokens ==
    {<<"r", "g", "b", "(", "r", "g", "b", "(", "1", ",", "2", ",", "3", ")">>,
     <<"o", "k", "l", "c", "h", "(", "o", "k", "l", "c", "h", "(", "5", "0", "%", " ", "0", ".", "1", " ", "2", "0", ")">>,
     <<"h", "s", "l", "(", "x", " ", "h", "s", "l", "(", "0", ",", " ", "0", "%", ",", " ", "0", "%", ")">>}

\* the token hsl(360, s%, l%), then hsl(0, s%, l%)
FullTurnPair(s, l) == HslLiteral(360, s, l) \o <<" ">> \o HslLiteral(0, s, l)

FullTurnPairs ==
    {FullTurnPair(100, 50), FullTurnPair(50, 25), FullTurnPair(20, 90), FullTurnPair(0, 50)}

TokenDocuments ==
    KeywordCaseTokens \cup AlphaTokens \cup HexTokens \cup AlphaHexLiterals \cup NestedTokens
    \cup FullTurnPairs

InitTokens == InitWith(TokenDocuments)

SpecTokens == InitTokens /\ [][Next]_vars

\* C13: the rgb/rgba and hsl/hsla keywords are recognised in any letter
\* case.  A token whose keyword is not in lower case is matched as one
\* token, is handed to the callback in its own casing, and the conversion
\* gives what it gives for the lower-case form of the token.
KeywordsCaseInsensitive ==
    \A k \in DOMAIN chain :
        chain[k].in \in KeywordCaseTokens =>
            /\ Len(chain[k].calls) = 1
            /\ chain[k].calls[1].match = chain[k].in
            /\ chain[k].out = convertCssColors(toLowerCase(chain[k].in), chain[k].options).out

\* RGB(1, 2, 3) has been converted to hex with no match and is unchanged,
\* while rgb(1, 2, 3) gives #010203
UpperCaseKeywordWitness ==
    \E k \in DOMAIN chain :
        /\ chain[k].in = TokUpperRgb
        /\ chain[k].options = [format |-> "hex", useCssSyntax |-> TRUE]
        /\ chain[k].calls = <<>>
        /\ chain[k].out = TokUpperRgb
        /\ convertCssColors(toLowerCase(TokUpperRgb), chain[k].options).out
               = <<"#", "0", "1", "0", "2", "0", "3">>

\* C14: a hex token has 3, 4, 6 or 8 digits.  Every match that starts with
\* '#' and is handed to the callback is '#' followed by exactly 3, 4, 6 or
\* 8 hex digits; '#' with 5 or 7 hex digits is never one token.
HexTokenLengths ==
    \A k \in DOMAIN chain :
        \A i \in DOMAIN chain[k].calls :
            LET match == chain[k].calls[i].match
            IN  Head(match) = "#" =>
                    /\ Len(match) - 1 \in {3, 4, 6, 8}
                    /\ \A j \in 2..Len(match) : match[j] \in ClsHex

\* '#' and five hex digits have been handed to the callback as one token,
\* which has no sample and stays as it is
FiveDigitHexTokenWitness ==
    \E k \in DOMAIN chain :
        /\ chain[k].in = SubSeq(HexOfEight, 1, 6)
        /\ Len(chain[k].calls) = 1
        /\ chain[k].calls[1].match = chain[k].in
        /\ chain[k].calls[1].parsed = null
        /\ chain[k].out = chain[k].in

\* C15: the alpha of an oklch token.  Written as N% it is read as N / 100,
\* written as a bare number it is that number; the sample handed to the
\* formatter carries the alpha as read; and oklch(59.69% 0.154 292.34 / 50%)
\* converted to rgb without CSS syntax gives an output that ends in "/ 0.5".
OklchAlphaRead ==
    \A k \in DOMAIN chain :
        /\ \A i \in DOMAIN chain[k].calls :
               \A form \in AlphaForms :
                   chain[k].calls[i].match = OklchWithAlpha(form.text) =>
                       /\ chain[k].calls[i].parsed # null
                       /\ chain[k].calls[i].parsed.a = Num(form.value)
                       /\ chain[k].calls[i].handed.a = Num(form.value)
        /\ (/\ chain[k].in = OklchWithAlpha(<<"5", "0", "%">>)
            /\ chain[k].options = [format |-> "rgb", useCssSyntax |-> FALSE])
           => endsWith(chain[k].out, <<" ", "/", " ", "0", ".", "5">>)

\* oklch(59.69% 0.154 292.34 / 50%) has been read with alpha 0.5 and has
\* become "131 106 210 / 0.5"
OklchAlphaWitness ==
    \E k \in DOMAIN chain :
        /\ chain[k].in = OklchWithAlpha(<<"5", "0", "%">>)
        /\ chain[k].options = [format |-> "rgb", useCssSyntax |-> FALSE]
        /\ Len(chain[k].calls) = 1
        /\ chain[k].calls[1].parsed.a = Num(Scale \div 2)
        /\ chain[k].out = <<"1", "3", "1", " ", "1", "0", "6", " ", "2", "1", "0", " ",
                            "/", " ", "0", ".", "5">>

\* C16: the alpha of an rgb/rgba and of an hsl/hsla token.  Written with a
\* percent sign it is read as the value / 100, written bare as the value
\* itself: rgba(0, 0, 0, 50%) and hsla(0, 0%, 0%, 50%) have alpha 0.5.
FunctionalAlphaRead ==
    \A k \in DOMAIN chain :
        \A i \in DOMAIN chain[k].calls :
            \A form \in AlphaForms :
                chain[k].calls[i].match \in {RgbaWithAlpha(form.text), HslaWithAlpha(form.text)}
                    => /\ chain[k].calls[i].parsed # null
                       /\ chain[k].calls[i].parsed.a = Num(form.value)

\* rgba(0, 0, 0, 50%) has been matched, has no sample and stays as it is
PercentAlphaWitness ==
    \E k \in DOMAIN chain :
        /\ chain[k].in = RgbaWithAlpha(<<"5", "0", "%">>)
        /\ chain[k].options = [format |-> "hex", useCssSyntax |-> TRUE]
        /\ Len(chain[k].calls) = 1
        /\ chain[k].calls[1].parsed = null
        /\ chain[k].out = chain[k].in

(***************************************************************************)
(* The empty text.                                                         *)
(***************************************************************************)
\* C17: the empty text converts to the empty text.  For every format and
\* syntax style, convertCssColors of the empty text returns the empty text,
\* with no callback invocation and no error.
EmptyTextConverts ==
    \A k \in DOMAIN chain :
        chain[k].in = <<>> => chain[k].out = <<>> /\ chain[k].calls = <<>>

\* the empty text has been converted twice, with different options
EmptyTextWitness ==
    /\ Len(chain) = 2
    /\ chain[1].in = <<>> /\ chain[1].out = <<>>
    /\ chain[2].in = <<>> /\ chain[2].out = <<>>
    /\ chain[1].options = [format |-> "oklch", useCssSyntax |-> TRUE]
    /\ chain[2].options = [format |-> "hex", useCssSyntax |-> FALSE]

\* the whole token fits the expression of its parser: the expression
\* matches from the first character of the token (it then ends with the
\* token, at the only closing parenthesis)
Conforms(cleanedMatch) ==
    IF startsWith(cleanedMatch, <<"#">>) THEN Len(cleanedMatch) - 1 \in {3, 4, 6, 8}
    ELSE IF startsWith(cleanedMatch, <<"r", "g", "b">>) THEN RgbRegexAt(cleanedMatch, 1).ok
    ELSE IF startsWith(cleanedMatch, <<"h", "s", "l">>) THEN HslRegexAt(cleanedMatch, 1).ok
    ELSE OklchRegexAt(cleanedMatch, 1).ok

\* C18: a parser gives a sample only for a token that fits its grammar as a
\* whole.  A token that does not, one that merely holds a well-formed
\* colour function further inside included, has no sample and is replaced
\* by itself.
ParsedTokensConform ==
    \A k \in DOMAIN chain :
        \A i \in DOMAIN chain[k].calls :
            ~Conforms(trim(toLowerCase(chain[k].calls[i].match))) =>
                /\ chain[k].calls[i].parsed = null
                /\ chain[k].calls[i].ret = chain[k].calls[i].match

\* the token rgb(rgb(1,2,3) has got the sample of the rgb(1,2,3) inside it
\* and has become #010203
NestedTokenWitness ==
    \E k \in DOMAIN chain :
        /\ chain[k].in = <<"r", "g", "b", "(", "r", "g", "b", "(", "1", ",", "2", ",", "3", ")">>
        /\ chain[k].options = [format |-> "hex", useCssSyntax |-> TRUE]
        /\ Len(chain[k].calls) = 1
        /\ chain[k].calls[1].match = chain[k].in
        /\ chain[k].calls[1].parsed = RGB(Int2Num(1), Int2Num(2), Int2Num(3), undefined)
        /\ chain[k].out = <<"#", "0", "1", "0", "2", "0", "3">>

\* the byte written with the hex digits hi and lo
ByteOf(hi, lo) == 16 * DigitValue(hi) + DigitValue(lo)

\* the sample the digits d of a hex token stand for: three bytes, and for
\* eight digits an alpha of the fourth byte / 255
SampleOfBytes(d) ==
    RGB(Int2Num(ByteOf(d[1], d[2])), Int2Num(ByteOf(d[3], d[4])), Int2Num(ByteOf(d[5], d[6])),
        IF Len(d) = 8 THEN Num(RoundDiv(ByteOf(d[7], d[8]) * Scale, 255)) ELSE undefined)

\* each digit of d twice
Doubled(d) == [j \in 1..(2 * Len(d)) |-> d[(j + 1) \div 2]]

\* C19: hexToRgb.  With the '#' taken off, three digits stand for the six
\* and four digits for the eight that double each digit; six digits give
\* the three bytes as channels and no alpha; eight digits give also the
\* alpha, the last byte / 255; five and seven digits give no sample.
HexParsed ==
    \A k \in DOMAIN chain :
        \A i \in DOMAIN chain[k].calls :
            LET match  == chain[k].calls[i].match
                digits == Tail(match)
                parsed == chain[k].calls[i].parsed
            IN  Head(match) = "#" =>
                    /\ Len(digits) \in {3, 4} => parsed = SampleOfBytes(Doubled(digits))
                    /\ Len(digits) \in {6, 8} => parsed = SampleOfBytes(digits)
                    /\ Len(digits) \in {5, 7} => parsed = null

\* #a1F8 has been read as aa, 11, ff with alpha 88 / 255
HexParsedWitness ==
    \E k \in DOMAIN chain :
        /\ chain[k].in = SubSeq(HexOfEight, 1, 5)
        /\ Len(chain[k].calls) = 1
        /\ chain[k].calls[1].parsed =
               RGB(Int2Num(170), Int2Num(17), Int2Num(255), Num(RoundDiv(136 * Scale, 255)))

\* the eight lower-case digits a hex literal of four or eight digits stands for
EightDigitForm(hex) ==
    toLowerCase(IF Len(hex) = 5 THEN <<"#">> \o Doubled(Tail(hex)) ELSE hex)

\* the alpha byte of a literal in its eight-digit form
AlphaByteOf(hex) == ByteOf(EightDigitForm(hex)[8], EightDigitForm(hex)[9])

\* the statement of C20 as the specification words it: hex with alpha ->
\* rgb -> hex is exact.  A hex literal of four or eight digits with an
\* alpha byte below ff, converted to rgb with CSS syntax and the output
\* converted to hex with CSS syntax, gives the three channels and the alpha
\* byte it started with.
AlphaHexRoundTrip ==
    (/\ Chained
     /\ chain[1].in \in AlphaHexLiterals
     /\ chain[1].options = [format |-> "rgb", useCssSyntax |-> TRUE]
     /\ chain[2].options = [format |-> "hex", useCssSyntax |-> TRUE])
    => chain[2].out = EightDigitForm(chain[1].in)

\* #00000001 has gone to rgba(0, 0, 0, 0) and has come back as #00000000
AlphaByteLostWitness ==
    /\ Chained
    /\ chain[1].in = <<"#", "0", "0", "0", "0", "0", "0", "0", "1">>
    /\ chain[1].options = [format |-> "rgb", useCssSyntax |-> TRUE]
    /\ chain[1].out = RgbaWithAlpha(<<"0">>)
    /\ chain[2].options = [format |-> "hex", useCssSyntax |-> TRUE]
    /\ chain[2].out = <<"#", "0", "0", "0", "0", "0", "0", "0", "0">>

\* C20: hex with alpha -> rgb -> hex keeps the channels exactly and the
\* alpha byte to within one.  A hex literal of four or eight digits with an
\* alpha byte of at most fd, converted to rgb with CSS syntax and the output
\* converted to hex with CSS syntax, gives an eight-digit literal with the
\* three channels it started with and an alpha byte at most one away from
\* the one it started with (the rgba() in between carries the alpha to two
\* decimal places).
AlphaHexRoundTripWithinOne ==
    (/\ Chained
     /\ chain[1].in \in AlphaHexLiterals
     /\ AlphaByteOf(chain[1].in) <= 253
     /\ chain[1].options = [format |-> "rgb", useCssSyntax |-> TRUE]
     /\ chain[2].options = [format |-> "hex", useCssSyntax |-> TRUE])
    => /\ Len(chain[2].out) = 9
       /\ SubSeq(chain[2].out, 1, 7) = SubSeq(EightDigitForm(chain[1].in), 1, 7)
       /\ ByteOf(chain[2].out[8], chain[2].out[9]) - AlphaByteOf(chain[1].in) \in {-1, 0, 1}

\* #a1F80c7E has gone to rgba(161, 248, 12, 0.49) and has come back as
\* #a1f80c7d: the channels as they were, the alpha byte one below
AlphaWithinOneWitness ==
    /\ Chained
    /\ chain[1].in = HexOfEight
    /\ chain[1].options = [format |-> "rgb", useCssSyntax |-> TRUE]
    /\ chain[1].out = <<"r", "g", "b", "a", "(", "1", "6", "1", ",", " ", "2", "4", "8", ",", " ", "1", "2", ",", " ", "0", ".", "4", "9", ")">>
    /\ chain[2].options = [format |-> "hex", useCssSyntax |-> TRUE]
    /\ chain[2].out = <<"#", "a", "1", "f", "8", "0", "c", "7", "d">>

(***************************************************************************)
(* The channels an hsl token is read as, against the hue-chroma-mid-point  *)
(* construction in whole numbers.  With s2 and l2 in halves of a percent,  *)
(* chroma is (200 - |2 l2 - 200|) * s2 / 40000, and 255 * (p + mid) is a   *)
(* whole number of 4800000ths.                                             *)
(***************************************************************************)
\* 255 * (p + mid) of the three channels, in 4800000ths
HslConstruction(h, s2, l2) ==
    LET c40 == (200 - Abs(2 * l2 - 200)) * s2
        k   == 60 - Abs((h % 120) - 60)
        c   == c40 * 120
        x   == c40 * k * 2
        mid == l2 * 24000 - c40 * 60
        p   == IF h < 60 THEN <<c, x, 0>>
               ELSE IF h < 120 THEN <<x, c, 0>>
               ELSE IF h < 180 THEN <<0, c, x>>
               ELSE IF h < 240 THEN <<0, x, c>>
               ELSE IF h < 300 THEN <<x, 0, c>>
               ELSE <<c, 0, x>>
    IN  [i \in 1..3 |-> 255 * (p[i] + mid)]

\* the number x is v / 4800000 rounded to the nearest whole number; at an
\* exact half the arithmetic of doubles decides between the two neighbours
\* (hsl(0, 100%, 5%) is read with r = 25, of 25.5), so either is taken
IsRounded(x, v) ==
    /\ IsNum(x)
    /\ x.v % Scale = 0
    /\ IF v % 4800000 = 2400000
       THEN x.v \div Scale \in {v \div 4800000, v \div 4800000 + 1}
       ELSE x.v \div Scale = (v + 2400000) \div 4800000

\* a percentage written as a whole number or with the decimal .5, in halves
HalvesOf(written) ==
    IF endsWith(written, <<".", "5">>)
    THEN 2 * DigitsValue(SubSeq(written, 1, Len(written) - 2), 10) + 1
    ELSE 2 * DigitsValue(written, 10)

\* the hue, and the saturation and the lightness in halves of a percent, an
\* hsl literal is written with
WrittenHue(text) == DigitsValue(HslRegexAt(text, 1).m1, 10)

WrittenSaturation(text) == HalvesOf(HslRegexAt(text, 1).m2)

WrittenLightness(text) == HalvesOf(HslRegexAt(text, 1).m3)

\* the sample is the construction of the literal, rounded
IsConstructionOf(parsed, text) ==
    /\ parsed.t = "rgb"
    /\ \A i \in 1..3 :
           IsRounded(<<parsed.r, parsed.g, parsed.b>>[i],
                     HslConstruction(WrittenHue(text), WrittenSaturation(text),
                                     WrittenLightness(text))[i])

\* C21: the channels an hsl token with a whole hue in [0, 360) is read as
\* are round(255 * (p + mid)), with chroma = (1 - |2l - 1|) * s,
\* x = chroma * (1 - |((h / 60) mod 2) - 1|), mid = l - chroma / 2, and p
\* the arrangement of (chroma, x, 0) of the sextant of h; s and l are the
\* written percentages over 100, decimals kept.
HslChannelsAsConstructed ==
    \A k \in DOMAIN chain :
        chain[k].in \in HslLiterals \cup HslDecimalLiterals
        => /\ Len(chain[k].calls) = 1
           /\ IsConstructionOf(chain[k].calls[1].parsed, chain[k].in)

\* hsl(311, 12.5%, 33.5%) has been read as 96, 75, 92: chroma 0.08375,
\* x = chroma * 49 / 60, mid 0.293125, and p = (chroma, 0, x)
HslChannelsWitness ==
    \E k \in DOMAIN chain :
        /\ chain[k].in = HslHalfLiteral(311, 25, 67)
        /\ Len(chain[k].calls) = 1
        /\ chain[k].calls[1].parsed =
               RGB(Int2Num(96), Int2Num(75), Int2Num(92), undefined)

(***************************************************************************)
(* The shapes of the replacements, format by format.                       *)
(***************************************************************************)
\* the calls of the conversions made with the given options that handed a
\* sample to the formatter, as pairs <<k, i>>
FormattedCalls(options) ==
    {ki \in (DOMAIN chain) \X (1..MaxCalls) :
         /\ chain[ki[1]].options = options
         /\ ki[2] <= Len(chain[ki[1]].calls)
         /\ chain[ki[1]].calls[ki[2]].handed.t = "rgb"}

\* digits are the pairs of the sample: three channels, and the alpha pair
\* round(alpha * 255) exactly when alpha is present and below 1
IsHexOf(digits, handed) ==
    /\ Len(digits) = IF HasAlphaBelowOne(handed.a) THEN 8 ELSE 6
    /\ \A i \in DOMAIN digits : InSeq(LowerHex, digits[i])
    /\ \A i \in 1..3 :
           /\ IsNum(<<handed.r, handed.g, handed.b>>[i])
           /\ ByteOf(digits[2 * i - 1], digits[2 * i])
                  = MathRound(<<handed.r, handed.g, handed.b>>[i].v)
    /\ HasAlphaBelowOne(handed.a)
           => ByteOf(digits[7], digits[8]) = MathRound(handed.a.v * 255)

\* C22: hex output is the three channels, each as exactly two lower-case
\* hex digits, then one more pair round(alpha * 255) only when alpha is
\* present and below 1, with '#' in front exactly when useCssSyntax is
\* true: 6 or 8 hex digits for every sample that reaches the formatter.
HexOutputShape ==
    \A css \in BOOLEAN :
        \A ki \in FormattedCalls([format |-> "hex", useCssSyntax |-> css]) :
            LET call == chain[ki[1]].calls[ki[2]]
            IN  IF css
                THEN /\ call.ret # <<>>
                     /\ Head(call.ret) = "#"
                     /\ IsHexOf(Tail(call.ret), call.handed)
                ELSE IsHexOf(call.ret, call.handed)

\* hsl(0, ., 50%) has reached the hex formatter as a sample of NaN channels
\* and has been printed as #NaNNaNNaN
NaNHexWitness ==
    \E ki \in FormattedCalls([format |-> "hex", useCssSyntax |-> TRUE]) :
        /\ chain[ki[1]].in = DocNaN
        /\ chain[ki[1]].calls[ki[2]].handed.r = NaN
        /\ chain[ki[1]].calls[ki[2]].ret =
               <<"#", "N", "a", "N", "N", "a", "N", "N", "a", "N">>

\* the texts of parts with sep between them
RECURSIVE JoinWith(_, _)
JoinWith(parts, sep) ==
    IF parts = <<>> THEN <<>>
    ELSE IF Len(parts) = 1 THEN parts[1]
    ELSE parts[1] \o sep \o JoinWith(Tail(parts), sep)

\* text is the alpha a rounded to two decimals, printed as a number is:
\* digits before the point, no zeros kept at the end of the fraction and no
\* point without a fraction (0.5, 0.25, 0, 1)
IsAlphaPrinted(text, a) ==
    /\ IsUnsignedNumeral(text)
    /\ Head(text) \in ClsDigit
    /\ InSeq(text, ".") => text[Len(text)] # "0"
    /\ parseFloat(text) = Num(RoundDiv(a.v, 10000) * 10000)

\* the last component of a replacement
LastComponent(ret) == Components(Inside(ret))[Len(Components(Inside(ret)))]

\* ret is the rgb output of the sample: one of the four shapes, the
\* channels rounded to whole numbers
IsRgbOf(ret, handed, useCssSyntax) ==
    LET channels == <<RoundedString(handed.r), RoundedString(handed.g),
                      RoundedString(handed.b)>>
    IN  IF HasAlphaBelowOne(handed.a)
        THEN /\ Len(Components(Inside(ret))) = 4
             /\ IsAlphaPrinted(LastComponent(ret), handed.a)
             /\ ret = IF useCssSyntax
                      THEN <<"r", "g", "b", "a", "(">>
                           \o JoinWith(channels \o <<LastComponent(ret)>>, <<",", " ">>)
                           \o <<")">>
                      ELSE JoinWith(channels, <<" ">>) \o <<" ", "/", " ">>
                           \o LastComponent(ret)
        ELSE ret = IF useCssSyntax
                   THEN <<"r", "g", "b", "(">> \o JoinWith(channels, <<",", " ">>) \o <<")">>
                   ELSE JoinWith(channels, <<" ">>)

\* C23: rgb output has one of four shapes.  With alpha present and below 1
\* it is rgba(r, g, b, a) under CSS syntax and r g b / a under bare syntax,
\* a being alpha rounded to two decimals and printed without forced
\* trailing zeros; otherwise it is rgb(r, g, b) or r g b; r, g, b are the
\* channels rounded to the nearest whole number.
RgbOutputShape ==
    \A css \in BOOLEAN :
        \A ki \in FormattedCalls([format |-> "rgb", useCssSyntax |-> css]) :
            IsRgbOf(chain[ki[1]].calls[ki[2]].ret, chain[ki[1]].calls[ki[2]].handed, css)

\* x #0f08 oklch(59.69% 0.154 292.34 / 50%) y has been converted to rgb with
\* bare syntax: 0 255 0 / 0.53 for the hex token (alpha 136 / 255) and an
\* alpha printed as 0.5 for the oklch token
RgbOutputWitness ==
    \E k \in DOMAIN chain :
        /\ chain[k].in = DocAlphaTokens
        /\ chain[k].options = [format |-> "rgb", useCssSyntax |-> FALSE]
        /\ Len(chain[k].calls) = 2
        /\ chain[k].calls[1].ret =
               <<"0", " ", "2", "5", "5", " ", "0", " ", "/", " ", "0", ".", "5", "3">>
        /\ LastComponent(chain[k].calls[2].ret) = <<"0", ".", "5">>

\* text is the number x rounded to one decimal, a '.0' at the end removed
\* (50, 33.3); NaN for a number that is not one
IsOneDecimalPrinted(text, x) ==
    IF ~IsNum(x) THEN text = NaNString
    ELSE /\ IsUnsignedNumeral(text)
         /\ Head(text) \in ClsDigit
         /\ InSeq(text, ".") => /\ text[Len(text) - 1] = "."
                                /\ text[Len(text)] # "0"
         /\ parseFloat(text) = Num(RoundDiv(x.v, 100000) * 100000)

\* text is the number x rounded to no decimals
IsWholePrinted(text, x) ==
    IF ~IsNum(x) THEN text = NaNString
    ELSE /\ text # <<>>
         /\ \A i \in DOMAIN text : text[i] \in ClsDigit
         /\ DigitsValue(text, 10) = RoundDiv(x.v, Scale)

\* ret is the hsl output of hsl: one of the four shapes, the hue rounded to
\* no decimals, saturation and lightness to one
IsHslOf(ret, hsl, useCssSyntax) ==
    LET comps == Components(Inside(ret))
        pct   == IF useCssSyntax THEN <<"%">> ELSE <<>>
        sep   == IF useCssSyntax THEN <<",", " ">> ELSE <<" ">>
        body  == comps[1] \o sep \o comps[2] \o pct \o sep \o comps[3] \o pct
    IN  /\ Len(comps) = IF HasAlphaBelowOne(hsl.a) THEN 4 ELSE 3
        /\ IsWholePrinted(comps[1], hsl.h)
        /\ IsOneDecimalPrinted(comps[2], hsl.s)
        /\ IsOneDecimalPrinted(comps[3], hsl.l)
        /\ IF HasAlphaBelowOne(hsl.a)
           THEN /\ IsAlphaPrinted(comps[4], hsl.a)
                /\ ret = IF useCssSyntax
                         THEN <<"h", "s", "l", "a", "(">> \o body \o sep \o comps[4] \o <<")">>
                         ELSE body \o <<" ", "/", " ">> \o comps[4]
           ELSE ret = IF useCssSyntax
                      THEN <<"h", "s", "l", "(">> \o body \o <<")">>
                      ELSE body

\* C24: hsl output prints the hue rounded to 0 decimals and saturation and
\* lightness rounded to 1 decimal with a '.0' at the end removed, as
\* hsl(h, s%, l%) or, with alpha present and below 1, hsla(h, s%, l%, a)
\* under CSS syntax, and as h s l or h s l / a, without percent signs,
\* under bare syntax; alpha is printed as in rgb output.
HslOutputShape ==
    \A css \in BOOLEAN :
        \A ki \in FormattedCalls([format |-> "hsl", useCssSyntax |-> css]) :
            IsHslOf(chain[ki[1]].calls[ki[2]].ret,
                    rgbToHsl(chain[ki[1]].calls[ki[2]].handed), css)

\* hsla(120, 50%, 50%, 0.25)#fff has been converted to hsl with bare syntax:
\* 120 49.8 50 / 0.25 for the first token (the sample is 64, 191, 64; the
\* lightness 50.0 is printed as 50) and 0 0 100 for the second
HslOutputWitness ==
    \E k \in DOMAIN chain :
        /\ chain[k].in = DocAdjacent
        /\ chain[k].options = [format |-> "hsl", useCssSyntax |-> FALSE]
        /\ Len(chain[k].calls) = 2
        /\ chain[k].calls[1].ret =
               <<"1", "2", "0", " ", "4", "9", ".", "8", " ", "5", "0", " ", "/", " ",
                 "0", ".", "2", "5">>
        /\ chain[k].calls[2].ret = <<"0", " ", "0", " ", "1", "0", "0">>

\* the digits after the point of a numeral; none when it has no point
FractionOf(text) ==
    IF InSeq(text, ".") THEN SubSeq(text, IndexOf(text, ".") + 1, Len(text)) ELSE <<>>

\* text is x printed with two decimals, only an exact '.00' removed:
\* 59.69, 292.2 is printed 292.20, 100 is printed 100
IsTwoDecimalsPrinted(text, x) ==
    IF ~IsNum(x) THEN text = NaNString
    ELSE /\ IsUnsignedNumeral(text)
         /\ Head(text) \in ClsDigit
         /\ InSeq(text, ".") => (Len(FractionOf(text)) = 2 /\ FractionOf(text) # <<"0", "0">>)
         /\ parseFloat(text) = Num(RoundDiv(x.v, 10000) * 10000)

\* text is x printed with four decimals, the zeros at the end of the
\* fraction and a point left without a fraction removed: 0.154, 0
IsChromaPrinted(text, x) ==
    IF ~IsNum(x) THEN text = NaNString
    ELSE /\ IsUnsignedNumeral(text)
         /\ Head(text) \in ClsDigit
         /\ InSeq(text, ".") => (Len(FractionOf(text)) <= 4 /\ text[Len(text)] # "0")
         /\ parseFloat(text) = Num(RoundDiv(x.v, 100) * 100)

\* text is the alpha a printed with two decimals, the zeros at the end and
\* a point left alone removed, and a leading '0.' collapsed to '.':
\* .5, .25, 0, 1
IsOklchAlphaPrinted(text, a) ==
    /\ IsUnsignedNumeral(text)
    /\ IF InSeq(text, ".")
       THEN Head(text) = "." /\ Len(text) <= 3 /\ text[Len(text)] # "0"
       ELSE text \in {<<"0">>, <<"1">>}
    /\ parseFloat(text) = Num(RoundDiv(a.v, 10000) * 10000)

\* ret is the oklch output of oklch
IsOklchOf(ret, oklch, useCssSyntax) ==
    LET comps == Components(Inside(ret))
        body  == comps[1] \o (IF useCssSyntax THEN <<"%">> ELSE <<>>) \o <<" ">>
                 \o comps[2] \o <<" ">> \o comps[3]
        tail  == IF HasAlphaBelowOne(oklch.a) THEN <<" ", "/", " ">> \o comps[4] ELSE <<>>
    IN  /\ Len(comps) = IF HasAlphaBelowOne(oklch.a) THEN 4 ELSE 3
        /\ IsTwoDecimalsPrinted(comps[1],
                                IF IsNum(oklch.L) THEN Num(oklch.L.v * 100) ELSE NaN)
        /\ IsChromaPrinted(comps[2], oklch.C)
        /\ IsTwoDecimalsPrinted(comps[3], oklch.h)
        /\ HasAlphaBelowOne(oklch.a) => IsOklchAlphaPrinted(comps[4], oklch.a)
        /\ ret = IF useCssSyntax
                 THEN <<"o", "k", "l", "c", "h", "(">> \o body \o tail \o <<")">>
                 ELSE body \o tail

\* C25: oklch output trims its numbers: lightness * 100 and hue have two
\* decimals and lose only an exact '.00'; chroma has four decimals and
\* loses the zeros at its end and a point left alone; alpha, only when
\* present and below 1, has two decimals, loses the zeros at its end and a
\* point left alone, and has a leading '0.' collapsed to '.', after ' / ';
\* the whole is oklch(L% C h) under CSS syntax and L C h under bare syntax.
OklchOutputShape ==
    \A css \in BOOLEAN :
        \A ki \in FormattedCalls([format |-> "oklch", useCssSyntax |-> css]) :
            IsOklchOf(chain[ki[1]].calls[ki[2]].ret,
                      rgbToOklch(chain[ki[1]].calls[ki[2]].handed), css)

\* #1234567890 has been converted to oklch with CSS syntax: the token
\* #12345678 gives oklch(33.60% 0.0615 281.52 / .47), the lightness with its
\* '.60' kept and the alpha 120 / 255 as .47
OklchOutputWitness ==
    \E k \in DOMAIN chain :
        /\ chain[k].in = DocLongHex
        /\ chain[k].options = [format |-> "oklch", useCssSyntax |-> TRUE]
        /\ Len(chain[k].calls) = 1
        /\ chain[k].calls[1].ret =
               <<"o", "k", "l", "c", "h", "(", "3", "3", ".", "6", "0", "%", " ", "0",
                 ".", "0", "6", "1", "5", " ", "2", "8", "1", ".", "5", "2", " ", "/",
                 " ", ".", "4", "7", ")">>

\* C26: a full turn is hue 0.  For every saturation s and lightness l, the
\* token hsl(360, s%, l%) is converted to the same colour as the token
\* hsl(0, s%, l%): the two are read as the same sample and replaced by the
\* same text.
FullTurnIsHueZero ==
    \A k \in DOMAIN chain :
        chain[k].in \in FullTurnPairs
        => /\ Len(chain[k].calls) = 2
           /\ chain[k].calls[1].parsed = chain[k].calls[2].parsed
           /\ chain[k].calls[1].ret = chain[k].calls[2].ret

\* hsl(360, 100%, 50%) has been read as 0, 0, 0 and hsl(0, 100%, 50%) as
\* 255, 0, 0
FullTurnGreyWitness ==
    \E k \in DOMAIN chain :
        /\ chain[k].in = FullTurnPair(100, 50)
        /\ chain[k].options = [format |-> "rgb", useCssSyntax |-> TRUE]
        /\ Len(chain[k].calls) = 2
        /\ chain[k].calls[1].parsed = RGB(Int2Num(0), Int2Num(0), Int2Num(0), undefined)
        /\ chain[k].calls[2].parsed = RGB(Int2Num(255), Int2Num(0), Int2Num(0), undefined)
        /\ chain[k].calls[1].ret = RgbLiteral(0, 0, 0)
        /\ chain[k].calls[2].ret = RgbLiteral(255, 0, 0)

\* C27: the hsl formatter never prints the hue 360.  For every sample of
\* whole channels in 0..255 the hue it prints is a whole number in 0..359,
\* inside one of the six sextants of hslStringToRgb.
PrintedHueBelow360 ==
    \A k \in DOMAIN chain :
        (/\ chain[k].in \in RgbLiterals
         /\ chain[k].options = [format |-> "hsl", useCssSyntax |-> TRUE])
        => /\ HslRegexAt(chain[k].out, 1).ok
           /\ HslField(chain[k].out, 1) \in 0..359

\* the sample 255, 0, 1 has hue 359.76 and has been printed as
\* hsl(360, 100%, 50%)
PrintedHue360Witness ==
    \E k \in DOMAIN chain :
        /\ chain[k].in = RgbLiteral(255, 0, 1)
        /\ chain[k].options = [format |-> "hsl", useCssSyntax |-> TRUE]
        /\ chain[k].calls[1].handed = RGB(Int2Num(255), Int2Num(0), Int2Num(1), undefined)
        /\ HslField(chain[k].out, 1) = 360
        /\ HslChannels(360, Scale, Scale \div 2) = <<Int2Num(0), Int2Num(0), Int2Num(0)>>

(***************************************************************************)
(* The token lists of the two editors: ColorConverter scans inputText and  *)
(* outputText with COLOR_REGEX and pairs the tokens by their index.        *)
(***************************************************************************)
\* text.match(COLOR_REGEX) || []: the texts of the tokens of text
TokensOf(text) == [i \in DOMAIN MatchesFrom(text, 0) |-> MatchesFrom(text, 0)[i].match]

\* C28: the tokenizer run over the output of convertCssColors finds as many
\* tokens as it finds in the input, and the i-th token of the output is
\* exactly the replacement made for the i-th token of the input, for every
\* input text and every configuration.
OutputTokensAligned ==
    \A k \in DOMAIN chain :
        /\ Len(TokensOf(chain[k].out)) = Len(chain[k].calls)
        /\ \A i \in DOMAIN chain[k].calls :
               i <= Len(TokensOf(chain[k].out))
               => TokensOf(chain[k].out)[i] = chain[k].calls[i].ret

\* a{#6750A4;rgb(300, 20, 128) hsl(120, 50%, 50%)} has three tokens; its
\* conversion to hex with bare syntax has replaced all three and has none
BareOutputWithoutTokensWitness ==
    \E k \in DOMAIN chain :
        /\ chain[k].in = DocMixed
        /\ chain[k].options = [format |-> "hex", useCssSyntax |-> FALSE]
        /\ Len(TokensOf(chain[k].in)) = 3
        /\ Len(chain[k].calls) = 3
        /\ \A i \in 1..3 : chain[k].calls[i].ret # chain[k].calls[i].match
        /\ TokensOf(chain[k].out) = <<>>

(***************************************************************************)
(* The debounced conversion of ColorConverter.                             *)
(* useDebouncedValue(inputText, 200) keeps a state debouncedValue; its     *)
(* effect, run when the value has changed, first runs the cleanup of the   *)
(* run before (clearTimeout(handler)) and then starts a timer that will    *)
(* set debouncedValue to the value.  The effect with the dependencies      *)
(* debouncedInputText, outputFormat and useCssSyntax sets outputText to    *)
(* the conversion.  A state update, the render it causes and the effects   *)
(* of that render are one step.                                            *)
(***************************************************************************)
\* the texts the input editor can hold
TypedTexts == {<<>>, DocMixed, DocAdjacent, DocNoColor, DocAlphaKinds}

\* ColorConverter after its first render and its effects: inputText is the
\* initial text, debouncedValue starts as the value, the first timer is
\* pending, and outputText is the first conversion
InitDebounce ==
    /\ cssString = DocMixed
    /\ config \in Options
    /\ debouncedValue = cssString
    /\ timers = {cssString}
    /\ outputText = convertCssColors(cssString, config).out
    /\ chain = <<>>
    /\ lastIndex = 0
    /\ scan = NoScan
    /\ InitWorker

\* a setInputText whose effect has no cleanup: DebouncedConversion tells it
\* from setInputText
setInputTextWithoutCleanup(text) ==
    /\ text # cssString
    /\ cssString' = text
    /\ timers' = timers \cup {text}
    /\ UNCHANGED <<outputText, chain, lastIndex, scan, debouncedValue, config, workerVars>>

\* onValueChange of the input editor: setInputText(text) with a new text.
\* The effect of useDebouncedValue clears the timer of the value before
\* and starts the timer of text.
setInputText(text) ==
    /\ text # cssString
    /\ cssString' = text
    /\ timers' = (timers \ {cssString}) \cup {text}
    /\ UNCHANGED <<outputText, chain, lastIndex, scan, debouncedValue, config, workerVars>>

\* a timer fires: setDebouncedValue(value); when that changes the state,
\* the conversion effect runs
handler(value) ==
    /\ value \in timers
    /\ timers' = timers \ {value}
    /\ debouncedValue' = value
    /\ outputText' = IF value # debouncedValue
                     THEN convertCssColors(value, config).out
                     ELSE outputText
    /\ UNCHANGED <<cssString, chain, lastIndex, scan, config, workerVars>>

\* a change of a setting; the conversion effect runs on debouncedInputText
ChangeSetting(options) ==
    /\ options # config
    /\ config' = options
    /\ outputText' = convertCssColors(debouncedValue, options).out
    /\ UNCHANGED <<cssString, chain, lastIndex, scan, debouncedValue, timers, workerVars>>

\* onFormatChange: setOutputFormat
setOutputFormat(format) == ChangeSetting([config EXCEPT !.format = format])

\* onCssSyntaxChange: setUseCssSyntax
setUseCssSyntax(useCssSyntax) == ChangeSetting([config EXCEPT !.useCssSyntax = useCssSyntax])

NextDebounce ==
    \/ \E text \in TypedTexts : setInputText(text)
    \/ \E value \in timers : handler(value)
    \/ \E format \in ColorFormat : setOutputFormat(format)
    \/ \E useCssSyntax \in BOOLEAN : setUseCssSyntax(useCssSyntax)

SpecDebounce == InitDebounce /\ [][NextDebounce]_vars

\* at most one timer is pending
OneTimer == Cardinality(timers) <= 1

\* with no timer pending, outputText is the conversion of the text of the
\* input editor with the settings as they are, so that the token lists of
\* the two editors come from the same text
Settled ==
    timers = {}
    => /\ outputText = convertCssColors(cssString, config).out
       /\ Len(TokensOf(cssString)) = Len(convertCssColors(cssString, config).calls)

\* a timer that fires commits the text of the input editor, never an older
\* one, and outputText is then its conversion
CommitsLatest ==
    (timers' # timers /\ cssString' = cssString)
    => /\ debouncedValue' = cssString
       /\ outputText' = convertCssColors(cssString, config).out

NetworkResponses(request) ==
    IF request = "https://fonts.example/css"
    THEN {Response(200, "cors", "network"), Response(0, "opaque", "network")}
    ELSE {Response(200, "basic", "network"), Response(404, "basic", "network")}

\* the value of a promise that resolved with undefined
NoResponse == [t |-> "undefined"]

\* the test of the first callback: the response is worth caching
IsValidToCache(response) ==
    ~ (\/ response.status # 200
       \/ (response.type # "basic" /\ response.type # "cors"))

\* a fetch event arrives: the handler calls fetch(event.request) and hands
\* the promise to respondWith
FetchEvent(request) ==
    /\ events[request].phase \in {"idle", "answered"}
    /\ events' = [events EXCEPT ![request] = FetchEventOf("fetching", None, FALSE, None)]
    /\ UNCHANGED <<cache, puts, converterVars, debounceVars>>

\* fetch(event.request) resolves: the first callback returns the response
\* and, when it is worth caching, starts cache.put(event.request, clone)
NetworkResolves(request, response) ==
    /\ events[request].phase = "fetching"
    /\ events' = [events EXCEPT ![request] = FetchEventOf("answered", response, FALSE, response)]
    /\ puts' = IF IsValidToCache(response) THEN puts \cup {<<request, response>>} ELSE puts
    /\ UNCHANGED <<cache, converterVars, debounceVars>>

\* caches.open(CACHE_NAME) has resolved: cache.put writes the entry
CachePut(put) ==
    /\ put \in puts
    /\ cache' = [cache EXCEPT ![put[1]] = put[2]]
    /\ puts' = puts \ {put}
    /\ UNCHANGED <<events, converterVars, debounceVars>>

\* fetch(event.request) rejects: the catch callback calls caches.match
NetworkRejects(request) ==
    /\ events[request].phase = "fetching"
    /\ events' = [events EXCEPT ![request] = FetchEventOf("matching", Rejected, TRUE, None)]
    /\ UNCHANGED <<cache, puts, converterVars, debounceVars>>

\* caches.match(event.request) resolves: the callback returns the entry if
\* there is one, and nothing otherwise
CacheMatches(request) ==
    /\ events[request].phase = "matching"
    /\ events' = [events EXCEPT ![request] =
                      FetchEventOf("answered", Rejected, TRUE,
                                   IF cache[request] # None THEN cache[request]
                                   ELSE NoResponse)]
    /\ UNCHANGED <<cache, puts, converterVars, debounceVars>>

InitWorkerOnly ==
    /\ cssString = <<>>
    /\ outputText = <<>>
    /\ chain = <<>>
    /\ lastIndex = 0
    /\ scan = NoScan
    /\ InitSettings
    /\ InitWorker

NextWorker ==
    \/ \E request \in Requests : FetchEvent(request)
    \/ \E request \in Requests : \E response \in NetworkResponses(request) :
           NetworkResolves(request, response)
    \/ \E put \in puts : CachePut(put)
    \/ \E request \in Requests : NetworkRejects(request)
    \/ \E request \in Requests : CacheMatches(request)

SpecWorker == InitWorkerOnly /\ [][NextWorker]_vars

IsResponse(value) == value.t = "response"

\* an answered event was given a Response
AnsweredWithResponse ==
    \A request \in Requests :
        events[request].phase = "answered" => IsResponse(events[request].answer)

\* when fetch resolved, the answer is the network response, whatever its
\* status
NetworkResponseWhenResolved ==
    \A request \in Requests :
        (events[request].phase = "answered" /\ IsResponse(events[request].network))
        => events[request].answer = events[request].network

\* caches.match was called only for an event whose fetch rejected
CacheOnlyAfterReject ==
    \A request \in Requests :
        events[request].consulted => events[request].network = Rejected

\* what the handler writes or is about to write to the cache is a network
\* response with status 200 and type basic or cors
OnlyValidResponsesCached ==
    /\ \A put \in puts :
           /\ put[2] \in NetworkResponses(put[1])
           /\ put[2].status = 200
           /\ put[2].type \in {"basic", "cors"}
    /\ \A request \in Requests :
           cache[request] \notin {None, Response(200, "basic", "installed")}
           => /\ cache[request] \in NetworkResponses(request)
              /\ cache[request].status = 200
              /\ cache[request].type \in {"basic", "cors"}

\* C30: service worker fetch handling.  Every fetch event is answered with
\* a Response; it is the network response whenever the network request
\* resolves, whatever its status; the cache is consulted only when the
\* network request rejects; and only network responses with status 200 and
\* type basic or cors are written to the cache.
FetchHandling ==
    /\ AnsweredWithResponse
    /\ NetworkResponseWhenResolved
    /\ CacheOnlyAfterReject
    /\ OnlyValidResponsesCached

\* the script of the site was asked for, the network request rejected, the
\* cache has no entry for it, and respondWith was given undefined
UnansweredFetchWitness ==
    /\ events["/assets/index.js"] = FetchEventOf("answered", Rejected, TRUE, NoResponse)
    /\ cache["/assets/index.js"] = None

=============================================================================
